---- MODULE Spec2Model ----
(***************************************************************************)
(* A model of the agentic design-pattern examples: the MessageHistory      *)
(* wrapper, the two call-centre routers, the City Insights prompt chain,   *)
(* the mock project-tracking store, the terminal loops and the web page.   *)
(*                                                                         *)
(* Each program is a specification of its own (SpecGraph, SpecTool,        *)
(* SpecCity, SpecStore, SpecHistory, SpecDrivers, SpecWeb) over one set of *)
(* variables; the variables of the other programs keep their first values. *)
(***************************************************************************)
EXTENDS Integers, Sequences, FiniteSets, TLC

VARIABLES
    \* ---- graph-variant call centre (call_centre_multi_agent.py)
    gs_history,     \* __messages of the MessageHistory object bound to the class attribute GraphState.history
    gs_usage,       \* requests counted by the Usage object bound to the class attribute GraphState.usage
    cc_state,       \* per CallCentre instance: the instance attributes of self.state
    cc_pc,          \* position of the turn in progress: "idle", a node name, or "End"
    cc_cur,         \* the CallCentre instance whose turn is in progress
    cc_nodes,       \* the nodes executed so far in this turn, in order
    cc_decision,    \* the Supervisor.Response the model gave in this turn (None before it does)
    cc_outcome,     \* of the latest ask_async: "none", "running", "returned" or "raised"
    cc_result,      \* what the latest ask_async returned (None unless it returned)
    cc_supIn,       \* the message_history handed to the supervisor's agent in the latest turn
    cc_lastAll,     \* result.all_messages() of the latest agent call
    cc_justReset,   \* the instance whose reset_state() was the latest operation, else 0
    cc_turns,       \* turns started so far
    \* ---- tool-variant call centre (call_centre_multi_agent_as_tools.py)
    ts_history,     \* __messages of the MessageHistory object bound to the class attribute States.history
    ts_usage,       \* requests counted by the Usage object bound to the class attribute States.usage
    tc_pc,          \* "idle", or "streaming" while run_stream is open
    tc_cur,         \* the CallCentre instance whose turn is in progress
    tc_prompt,      \* the prompt of the turn in progress
    tc_histIn,      \* the message_history handed to supervisor.run_stream in the latest turn
    tc_calls,       \* the specialist tools the supervisor has called in this turn, with their answers
    tc_nCalls,      \* specialist tool calls made since the program started
    tc_nChunks,     \* fragments streamed since the program started
    tc_final,       \* final_response: the fragments received so far, concatenated
    tc_sink,        \* the fragments the stream_parts callback has received, in order
    tc_stream,      \* the fragments the stream has yielded in this turn, in order
    tc_lastAll,     \* result.all_messages() as the latest completed stream gave it
    tc_outcome,     \* of the latest ask_async: "none", "running", "returned" or "raised"
    tc_result,      \* the response text the latest ask_async returned (None unless it returned)
    tc_justReset,   \* the instance whose reset() was the latest operation, else 0
    tc_turns,       \* turns started so far
    \* ---- City Insights (city_insights.py)
    ci_pc,          \* "idle", the stage about to run, or "End"
    ci_state,       \* graphState, the CityInsightsState of the run in progress
    ci_stages,      \* the stages executed so far in this run, in order
    ci_asked,       \* what each stage's agent was asked in this run, in order
    ci_outcome,     \* of the latest get_details_async: "none", "running", "returned" or "raised"
    ci_result,      \* the CityDetailResponse the latest get_details_async returned
    ci_runs,        \* runs started so far
    \* ---- mock project-tracking store (asana_api.py)
    Project,        \* the rows of table Project, in rowid order
    Task,           \* the rows of table Task, in rowid order
    db_nProjects,   \* uuid4 values drawn for projects so far
    db_nTasks,      \* uuid4 values drawn for tasks so far
    db_op,          \* the store operation that has just returned, with its arguments, or Idle
    db_ret,         \* what that operation returned
    db_pre,         \* the two tables as that operation found them
    db_conns,       \* what that operation did with connections and on them, in order
    \* ---- tool adapter of the store (asana_tools.py)
    at_tools,       \* self.__tools__ of the AsanaTools object the front ends build
    \* ---- a MessageHistory object on its own (message_history.py)
    mh_messages,    \* self.__messages
    mh_ops,         \* the method calls made on the object since it was built, in order
    mh_pre,         \* __messages as the latest call found it
    mh_ret,         \* what the latest call returned or raised
    \* ---- console assistant (console.py)
    co_history,     \* __messages of message_history
    co_histIn,      \* the message_history handed to agent.run_stream in the latest turn
    co_prompt,      \* the prompt of the latest turn
    co_calls,       \* the store tools the model has called in this turn, with their answers
    co_final,       \* response_content: the fragments received so far, concatenated
    co_stream,      \* the fragments the stream has yielded in this turn, in order
    co_lastAll,     \* result.all_messages() as the latest completed stream gave it
    co_nCalls,      \* store tool calls made since the program started
    co_nChunks,     \* fragments streamed since the program started
    co_turns,       \* turns started so far
    \* ---- web front end of the assistant (streamlit_ui.py)
    ui_history,     \* __messages of st.session_state.messages
    ui_histIn,      \* message_history as the latest run of the script read it
    ui_pc,          \* "idle" (the script has run to its end) or "streaming"
    ui_page,        \* the chat messages the latest run of the script has drawn, in order
    ui_shown,       \* what message_placeholder shows
    ui_prompt,      \* what st.chat_input gave the latest run of the script (empty: nothing)
    ui_calls,       \* the store tools the model has called in this turn, with their answers
    ui_final,       \* response_content: the fragments received so far, concatenated
    ui_stream,      \* the fragments the stream has yielded in this turn, in order
    ui_nCalls,      \* store tool calls made since the session started
    ui_nChunks,     \* fragments streamed since the session started
    ui_turns,       \* turns started so far
    \* ---- the terminal loop of a program (main_async)
    dr_program,     \* the program whose main_async runs: "console", "city", "graph" or "tool" ("none": no terminal loop runs)
    dr_pc,          \* "prompt" (at Prompt.ask), "try" (in the try block of a turn) or "exited"
    dr_line,        \* what the latest Prompt.ask returned (None before the first)
    dr_out,         \* what the loop has printed since the latest Prompt.ask returned
    dr_outcome,     \* of the latest try block: "none", "running", "returned" or "raised"
    dr_errors       \* errors printed so far

graphVars == <<gs_history, gs_usage, cc_state, cc_pc, cc_cur, cc_nodes, cc_decision,
               cc_outcome, cc_result, cc_supIn, cc_lastAll, cc_justReset, cc_turns>>

toolVars == <<ts_history, ts_usage, tc_pc, tc_cur, tc_prompt, tc_histIn, tc_calls, tc_nCalls,
              tc_nChunks, tc_final, tc_sink, tc_stream, tc_lastAll, tc_outcome, tc_result,
              tc_justReset, tc_turns>>

cityVars == <<ci_pc, ci_state, ci_stages, ci_asked, ci_outcome, ci_result, ci_runs>>

storeVars == <<Project, Task, db_nProjects, db_nTasks, db_op, db_ret, db_pre, db_conns, at_tools>>

historyVars == <<mh_messages, mh_ops, mh_pre, mh_ret>>

consoleVars == <<co_history, co_histIn, co_prompt, co_calls, co_final, co_stream, co_lastAll,
                 co_nCalls, co_nChunks, co_turns>>

webVars == <<ui_history, ui_histIn, ui_pc, ui_page, ui_shown, ui_prompt, ui_calls, ui_final,
             ui_stream, ui_nCalls, ui_nChunks, ui_turns>>

driverVars == <<dr_program, dr_pc, dr_line, dr_out, dr_outcome, dr_errors>>

vars == <<graphVars, toolVars, cityVars, storeVars, historyVars, consoleVars, webVars, driverVars>>

\* what the actions of each program leave alone
\* what an operation of each program leaves alone, the terminal loop that
\* calls it aside
besideGraph == <<toolVars, cityVars, storeVars, historyVars, consoleVars, webVars>>
besideTool == <<graphVars, cityVars, storeVars, historyVars, consoleVars, webVars>>
besideCity == <<graphVars, toolVars, storeVars, historyVars, consoleVars, webVars>>
besideConsole == <<graphVars, toolVars, cityVars, storeVars, historyVars, webVars>>
notGraph == <<besideGraph, driverVars>>
notTool == <<besideTool, driverVars>>
notCity == <<besideCity, driverVars>>
notStore == <<graphVars, toolVars, cityVars, historyVars, consoleVars, webVars, driverVars>>
notHistory == <<graphVars, toolVars, cityVars, storeVars, consoleVars, webVars, driverVars>>
notWeb == <<graphVars, toolVars, cityVars, storeVars, historyVars, consoleVars, driverVars>>

(***************************************************************************)
(* Bounds of the model.                                                    *)
(***************************************************************************)
\* turns started in a run of a call-centre program
MaxTurns == 2
\* fragments streamed, and specialist tools called, in a run of the tool variant
MaxChunks == 2
MaxToolCalls == 1
\* runs of the City Insights pipeline
MaxRuns == 2
\* projects and tasks created in a run of the store (one uuid4 each)
MaxUuids == 3
\* method calls made on a MessageHistory object taken on its own
MaxHistoryOps == 3
\* lines a terminal loop passes on to its agent in a run
MaxQueries == 1

\* Optional values: <<>> is None, <<x>> is the value x.
None == <<>>
Some(x) == <<x>>

Sessions == {1, 2}
Prompts == {"p1", "p2"}
\* what a specialist's model answers, and what the supervisor's model gives as
\* general_response ("none" is Python's None: the field is optional)
Texts == {"t1"}
GeneralTexts == {"g1", "none"}

(***************************************************************************)
(* Message parts and messages of the agent framework.                      *)
(***************************************************************************)
Part(kind, content, turn) == [part_kind |-> kind, content |-> content, turn |-> turn]
ModelRequest(parts) == [kind |-> "request", parts |-> parts]
ModelResponse(parts) == [kind |-> "response", parts |-> parts]

RECURSIVE ListRemove(_, _)
\* list.remove(x): drops the first element equal to x
ListRemove(s, x) ==
    IF s = <<>> THEN <<>>
    ELSE IF Head(s) = x THEN Tail(s)
    ELSE <<Head(s)>> \o ListRemove(Tail(s), x)

RECURSIVE StripParts(_, _, _)
\* the inner loop of remove_part_kind: walks a copy, removes from the list itself
StripParts(parts, copy, part_kind) ==
    IF copy = <<>> THEN parts
    ELSE StripParts(IF Head(copy).part_kind = part_kind
                        THEN ListRemove(parts, Head(copy))
                        ELSE parts,
                    Tail(copy), part_kind)

remove_part_kind_keep(messages, part_kind) == messages

remove_part_kind_first(messages, part_kind) ==
    [i \in 1..Len(messages) |->
        [messages[i] EXCEPT !.parts =
            IF \E j \in 1..Len(@) : @[j].part_kind = part_kind
            THEN ListRemove(@, @[CHOOSE j \in 1..Len(@) :
                                    /\ @[j].part_kind = part_kind
                                    /\ \A k \in 1..(j - 1) : @[k].part_kind # part_kind])
            ELSE @]]

remove_part_kind_prune(messages, part_kind) ==
    SelectSeq([i \in 1..Len(messages) |->
                  [messages[i] EXCEPT !.parts = StripParts(@, @, part_kind)]],
              LAMBDA message : message.parts # <<>>)

remove_part_kind(messages, part_kind) ==
    [i \in 1..Len(messages) |->
        [messages[i] EXCEPT !.parts = StripParts(@, @, part_kind)]]

HasKind(messages, part_kind) ==
    \E i \in 1..Len(messages) :
        \E j \in 1..Len(messages[i].parts) : messages[i].parts[j].part_kind = part_kind

\* The turns whose parts a list of messages holds.
TurnsOf(messages) ==
    {messages[i].parts[j].turn : <<i, j>> \in
        {<<i, j>> \in (1..Len(messages)) \X (1..4) : j <= Len(messages[i].parts)}}

(***************************************************************************)
(* The agent framework's run: the transcript it returns is the history it  *)
(* was given, then a request holding the user prompt (after the agent's    *)
(* system prompt when the framework adds one), then what the model         *)
(* produced.                                                               *)
(***************************************************************************)
AgentRequest(prompt, withSystem, turn) ==
    ModelRequest((IF withSystem THEN <<Part("system-prompt", "sys", turn)>> ELSE <<>>)
                 \o <<Part("user-prompt", prompt, turn)>>)

\* An agent with a structured result type answers through a final-result tool call.
StructuredRun(history, prompt, withSystem, data, turn) ==
    history \o <<AgentRequest(prompt, withSystem, turn),
                 ModelResponse(<<Part("tool-call", data, turn)>>),
                 ModelRequest(<<Part("tool-return", "final", turn)>>)>>

\* An agent with a text result.
TextRun(history, prompt, withSystem, data, turn) ==
    history \o <<AgentRequest(prompt, withSystem, turn),
                 ModelResponse(<<Part("text", data, turn)>>)>>

(***************************************************************************)
(* Graph-variant call centre.                                              *)
(***************************************************************************)
Specialist == {"General", "Billing", "Account", "Products", "Services", "Technical"}
SpecialistNodes ==
    {"BillingAccountSpecialist", "ProductServiceSpecialist", "TechnicalSupportSpecialist"}

\* A new GraphState() instance: it has no instance attribute, so prompt and
\* response read the class attributes (None) and specialist the class's Field.
GraphState == [prompt |-> None, specialist |-> "FieldInfo", response |-> None]

\* self.state.history and self.state.usage: no code assigns them on an
\* instance, so every instance reads the class attributes.
StateHistory(s) == gs_history
StateUsage(s) == gs_usage

\* Supervisor.Response, the structured result of the supervisor's agent
SupervisorResponse(specialist, general_response) ==
    [specialist |-> specialist, general_response |-> general_response]

CallCentreResponse(specialist, response) == [specialist |-> specialist, response |-> response]

finalize_no_response(history, state, response) ==
    [history |-> remove_part_kind(history, "system-prompt"), response |-> None]

finalize_stale(history, state, response) ==
    [history |-> remove_part_kind(history, "system-prompt"),
     response |-> Some(CallCentreResponse("General", response))]

\* Specialist.finalize: the stripped history and the response it stores
finalize(history, state, response) ==
    [history |-> remove_part_kind(history, "system-prompt"),
     response |-> Some(CallCentreResponse(state.specialist, response))]

Route_swapped(specialist) ==
    CASE specialist \in {"Account", "Billing"} -> "ProductServiceSpecialist"
      [] specialist \in {"Products", "Services"} -> "BillingAccountSpecialist"
      [] specialist = "Technical" -> "TechnicalSupportSpecialist"
      [] OTHER -> "End"

\* the match statement of Supervisor.run
Route(specialist) ==
    CASE specialist \in {"Account", "Billing"} -> "BillingAccountSpecialist"
      [] specialist \in {"Products", "Services"} -> "ProductServiceSpecialist"
      [] specialist = "Technical" -> "TechnicalSupportSpecialist"
      [] OTHER -> "End"

GraphVarsInit ==
    /\ gs_history = <<>>
    /\ gs_usage = 0
    /\ cc_state = [s \in Sessions |-> GraphState]
    /\ cc_pc = "idle"
    /\ cc_cur = 1
    /\ cc_nodes = <<>>
    /\ cc_decision = None
    /\ cc_outcome = "none"
    /\ cc_result = None
    /\ cc_supIn = <<>>
    /\ cc_lastAll = <<>>
    /\ cc_justReset = 0
    /\ cc_turns = 0

ask_async_keeps_response(s, prompt) ==
    /\ UNCHANGED besideGraph
    /\ cc_pc = "idle"
    /\ cc_turns < MaxTurns
    /\ cc_turns' = cc_turns + 1
    /\ cc_state' = [cc_state EXCEPT ![s].prompt = Some(prompt)]
    /\ cc_pc' = "Supervisor"
    /\ cc_cur' = s
    /\ cc_nodes' = <<>>
    /\ cc_decision' = None
    /\ cc_justReset' = 0
    /\ cc_outcome' = "running"
    /\ cc_result' = None
    /\ UNCHANGED <<gs_history, gs_usage, cc_supIn, cc_lastAll>>

\* CallCentre.ask_async up to the start of graph.run
ask_async(s, prompt) ==
    /\ UNCHANGED besideGraph
    /\ cc_pc = "idle"
    /\ cc_turns < MaxTurns
    /\ cc_turns' = cc_turns + 1
    /\ cc_state' = [cc_state EXCEPT ![s].prompt = Some(prompt), ![s].response = None]
    /\ cc_pc' = "Supervisor"
    /\ cc_cur' = s
    /\ cc_nodes' = <<>>
    /\ cc_decision' = None
    /\ cc_justReset' = 0
    /\ cc_outcome' = "running"
    /\ cc_result' = None
    /\ UNCHANGED <<gs_history, gs_usage, cc_supIn, cc_lastAll>>

\* Supervisor.run
Supervisor_run ==
    /\ UNCHANGED notGraph
    /\ cc_pc = "Supervisor"
    /\ LET s == cc_cur
           st == cc_state[s]
       IN IF st.response = None
          THEN \E d \in Specialist, withSystem \in BOOLEAN :
               \E g \in (IF d = "General" THEN GeneralTexts ELSE {"none"}) :
                LET all == StructuredRun(StateHistory(s), st.prompt[1], withSystem, d, cc_turns)
                    stripped == remove_part_kind(all, "system-prompt")
                    st1 == [st EXCEPT !.specialist = d]
                    fin == finalize(stripped, st1, g)
                IN /\ cc_supIn' = StateHistory(s)
                   /\ cc_lastAll' = all
                   /\ gs_usage' = StateUsage(s) + 1
                   /\ cc_decision' = Some(SupervisorResponse(d, g))
                   /\ IF Route(d) # "End"
                      THEN /\ gs_history' = stripped
                           /\ cc_state' = [cc_state EXCEPT ![s] = st1]
                           /\ cc_pc' = Route(d)
                           /\ cc_nodes' = Append(cc_nodes, "Supervisor")
                      ELSE /\ gs_history' = fin.history
                           /\ cc_state' = [cc_state EXCEPT ![s] = [st1 EXCEPT !.response = fin.response]]
                           /\ cc_pc' = "End"
                           /\ cc_nodes' = cc_nodes \o <<"Supervisor", "End">>
          ELSE /\ cc_pc' = "End"
               /\ cc_nodes' = cc_nodes \o <<"Supervisor", "End">>
               /\ UNCHANGED <<gs_history, gs_usage, cc_state, cc_decision, cc_supIn, cc_lastAll>>
    /\ UNCHANGED <<cc_cur, cc_outcome, cc_result, cc_justReset, cc_turns>>

\* the run method the three specialist nodes share word for word
SpecialistRun(node) ==
    /\ UNCHANGED notGraph
    /\ cc_pc = node
    /\ \E data \in Texts, withSystem \in BOOLEAN :
        LET s == cc_cur
            st == cc_state[s]
            all == TextRun(StateHistory(s), st.prompt[1], withSystem, data, cc_turns)
            fin == finalize(all, st, data)
        IN /\ cc_lastAll' = all
           /\ gs_usage' = StateUsage(s) + 1
           /\ gs_history' = fin.history
           /\ cc_state' = [cc_state EXCEPT ![s].response = fin.response]
    /\ cc_pc' = "Supervisor"
    /\ cc_nodes' = Append(cc_nodes, node)
    /\ UNCHANGED <<cc_cur, cc_decision, cc_outcome, cc_result, cc_supIn, cc_justReset, cc_turns>>

BillingAccountSpecialist_run == SpecialistRun("BillingAccountSpecialist")

TechnicalSupportSpecialist_run == SpecialistRun("TechnicalSupportSpecialist")

ProductServiceSpecialist_run == SpecialistRun("ProductServiceSpecialist")

\* an agent call raises: the exception leaves graph.run and ask_async and is
\* caught by the driver loop, which prints it and prompts again
AgentRaises ==
    /\ UNCHANGED notGraph
    /\ \/ cc_pc \in SpecialistNodes
       \/ cc_pc = "Supervisor" /\ cc_state[cc_cur].response = None
    /\ cc_pc' = "idle"
    /\ cc_nodes' = Append(cc_nodes, cc_pc)
    /\ cc_outcome' = "raised"
    /\ UNCHANGED cc_result
    /\ UNCHANGED <<gs_history, gs_usage, cc_state, cc_cur, cc_decision, cc_supIn,
                   cc_lastAll, cc_justReset, cc_turns>>

\* the end of ask_async: graph.run has reached End, self.state.response is returned
ask_async_return ==
    /\ UNCHANGED notGraph
    /\ cc_pc = "End"
    /\ cc_pc' = "idle"
    /\ cc_outcome' = "returned"
    /\ cc_result' = cc_state[cc_cur].response
    /\ UNCHANGED <<gs_history, gs_usage, cc_state, cc_cur, cc_nodes, cc_decision,
                   cc_supIn, cc_lastAll, cc_justReset, cc_turns>>

\* CallCentre.reset_state
reset_state(s) ==
    /\ UNCHANGED besideGraph
    /\ cc_pc = "idle"
    /\ cc_state' = [cc_state EXCEPT ![s] = GraphState]
    /\ cc_justReset' = s
    /\ UNCHANGED <<gs_history, gs_usage, cc_pc, cc_cur, cc_nodes, cc_decision,
                   cc_outcome, cc_result, cc_supIn, cc_lastAll, cc_turns>>

GraphAsk ==
    /\ UNCHANGED driverVars
    /\ \E s \in Sessions, prompt \in Prompts : ask_async(s, prompt)

GraphReset ==
    /\ UNCHANGED driverVars
    /\ \E s \in Sessions : reset_state(s)

GraphNext ==
    \/ GraphAsk
    \/ Supervisor_run
    \/ BillingAccountSpecialist_run
    \/ TechnicalSupportSpecialist_run
    \/ ProductServiceSpecialist_run
    \/ AgentRaises
    \/ ask_async_return
    \/ GraphReset

(***************************************************************************)
(* Tool-variant call centre.                                               *)
(***************************************************************************)
\* Text is a sequence of characters, so that concatenating fragments forgets
\* where one fragment ended and the next began.
Fragments == {<<"a">>, <<"b", "c">>}
ToolPrompts == {<<"p", "1">>}
ToolSessions == {1}
SpecialistTools ==
    {"technical_support_specialist", "billing_account_specialist", "product_service_specialist"}

\* the two part families of the framework that MessageHistory.append tells apart
RequestPartKinds == {"system-prompt", "user-prompt", "tool-return", "retry-prompt"}
ResponsePartKinds == {"text", "tool-call"}

assign_keep(messages, new) == messages

\* MessageHistory.assign: the list given becomes __messages
assign(messages, new) == new

\* MessageHistory.get_all_messages
get_all_messages(messages) == messages

append_unchecked(messages, part) ==
    IF part.part_kind \in RequestPartKinds THEN [ok |-> TRUE, messages |-> Append(messages, ModelRequest(<<part>>))]
    ELSE [ok |-> TRUE, messages |-> Append(messages, ModelResponse(<<part>>))]

\* MessageHistory.append; a part of neither family raises TypeError
append(messages, part) ==
    IF part.part_kind \in RequestPartKinds THEN [ok |-> TRUE, messages |-> Append(messages, ModelRequest(<<part>>))]
    ELSE IF part.part_kind \in ResponsePartKinds THEN [ok |-> TRUE, messages |-> Append(messages, ModelResponse(<<part>>))]
    ELSE [ok |-> FALSE, messages |-> messages]

StatesUsage_fresh(s) == 0

\* self.states.history and self.states.usage: States() sets no instance
\* attribute, so every instance reads the class attributes.
StatesHistory(s) == ts_history
StatesUsage(s) == ts_usage

RECURSIVE ToolMessages(_, _)
\* the messages a list of tool calls leaves in the transcript
ToolMessages(calls, turn) ==
    IF calls = <<>> THEN <<>>
    ELSE <<ModelResponse(<<Part("tool-call", <<Head(calls).tool>>, turn)>>),
           ModelRequest(<<Part("tool-return", Head(calls).data, turn)>>)>>
         \o ToolMessages(Tail(calls), turn)

\* result.all_messages() of a completed run_stream: the framework's transcript of the turn
StreamTranscript(history, prompt, withSystem, calls, turn) ==
    history \o <<AgentRequest(prompt, withSystem, turn)>> \o ToolMessages(calls, turn)

ToolVarsInit ==
    /\ ts_history = <<>>
    /\ ts_usage = 0
    /\ tc_pc = "idle"
    /\ tc_cur = 1
    /\ tc_prompt = <<>>
    /\ tc_histIn = <<>>
    /\ tc_calls = <<>>
    /\ tc_nCalls = 0
    /\ tc_nChunks = 0
    /\ tc_final = <<>>
    /\ tc_sink = <<>>
    /\ tc_stream = <<>>
    /\ tc_lastAll = <<>>
    /\ tc_outcome = "none"
    /\ tc_result = None
    /\ tc_justReset = 0
    /\ tc_turns = 0

\* CallCentre.ask_async (tool variant) up to the opening of run_stream
tool_ask_async(s, prompt) ==
    /\ UNCHANGED besideTool
    /\ tc_pc = "idle"
    /\ tc_turns < MaxTurns
    /\ tc_turns' = tc_turns + 1
    /\ tc_pc' = "streaming"
    /\ tc_cur' = s
    /\ tc_prompt' = prompt
    /\ tc_histIn' = StatesHistory(s)
    /\ ts_usage' = StatesUsage(s) + 1
    /\ tc_calls' = <<>>
    /\ tc_final' = <<>>
    /\ tc_sink' = <<>>
    /\ tc_stream' = <<>>
    /\ tc_outcome' = "running"
    /\ tc_result' = None
    /\ tc_justReset' = 0
    /\ UNCHANGED <<ts_history, tc_nCalls, tc_nChunks, tc_lastAll>>

\* the supervisor's model calls a specialist tool: the specialist's agent runs
\* on the user prompt alone, counting into tool_states.usage, and the
\* supervisor's model is asked again with the tool's answer
SpecialistToolCall(tool) ==
    /\ UNCHANGED notTool
    /\ tc_pc = "streaming"
    /\ tc_final = <<>>
    /\ tc_nCalls < MaxToolCalls
    /\ tc_nCalls' = tc_nCalls + 1
    /\ \E data \in Fragments :
        tc_calls' = Append(tc_calls, [tool |-> tool, data |-> data])
    /\ ts_usage' = StatesUsage(tc_cur) + 2
    /\ UNCHANGED <<ts_history, tc_pc, tc_cur, tc_prompt, tc_histIn, tc_nChunks, tc_final,
                   tc_sink, tc_stream, tc_lastAll, tc_outcome, tc_result, tc_justReset, tc_turns>>

technical_support_specialist == SpecialistToolCall("technical_support_specialist")

billing_account_specialist == SpecialistToolCall("billing_account_specialist")

product_service_specialist == SpecialistToolCall("product_service_specialist")

\* one round of the async for loop of ask_async: a fragment arrives
StreamChunk ==
    /\ UNCHANGED notTool
    /\ tc_pc = "streaming"
    /\ tc_nChunks < MaxChunks
    /\ tc_nChunks' = tc_nChunks + 1
    /\ \E chunk \in Fragments :
        /\ tc_stream' = Append(tc_stream, chunk)
        /\ tc_final' = tc_final \o chunk
        /\ tc_sink' = Append(tc_sink, chunk)
    /\ UNCHANGED <<ts_history, ts_usage, tc_pc, tc_cur, tc_prompt, tc_histIn, tc_calls,
                   tc_nCalls, tc_lastAll, tc_outcome, tc_result, tc_justReset, tc_turns>>

\* the stream ends: history.assign(result.all_messages()), then
\* history.append(TextPart(final_response)), then the response is returned
StreamEnd ==
    /\ UNCHANGED notTool
    /\ tc_pc = "streaming"
    /\ \E withSystem \in BOOLEAN :
        LET all == StreamTranscript(tc_histIn, tc_prompt, withSystem, tc_calls, tc_turns)
        IN /\ tc_lastAll' = all
           /\ ts_history' = append(assign(StatesHistory(tc_cur), all),
                                   Part("text", tc_final, tc_turns)).messages
    /\ tc_pc' = "idle"
    /\ tc_outcome' = "returned"
    /\ tc_result' = Some(tc_final)
    /\ UNCHANGED <<ts_usage, tc_cur, tc_prompt, tc_histIn, tc_calls, tc_nCalls, tc_nChunks,
                   tc_final, tc_sink, tc_stream, tc_justReset, tc_turns>>

StreamRaises_partial ==
    /\ UNCHANGED notTool
    /\ tc_pc = "streaming"
    /\ tc_pc' = "idle"
    /\ tc_outcome' = "raised"
    /\ ts_history' = append(StatesHistory(tc_cur), Part("text", tc_final, tc_turns)).messages
    /\ UNCHANGED <<ts_usage, tc_cur, tc_prompt, tc_histIn, tc_calls, tc_nCalls,
                   tc_nChunks, tc_final, tc_sink, tc_stream, tc_lastAll, tc_result, tc_justReset,
                   tc_turns>>

\* the agent call or the stream raises: the exception leaves ask_async before
\* history is assigned and is caught by the driver loop
StreamRaises ==
    /\ UNCHANGED notTool
    /\ tc_pc = "streaming"
    /\ tc_pc' = "idle"
    /\ tc_outcome' = "raised"
    /\ UNCHANGED <<ts_history, ts_usage, tc_cur, tc_prompt, tc_histIn, tc_calls, tc_nCalls,
                   tc_nChunks, tc_final, tc_sink, tc_stream, tc_lastAll, tc_result, tc_justReset,
                   tc_turns>>

\* CallCentre.reset, which is initialize(): a new States(), new tool states
\* around self.states.usage, a new supervisor agent
reset(s) ==
    /\ UNCHANGED besideTool
    /\ tc_pc = "idle"
    /\ tc_justReset' = s
    /\ UNCHANGED <<ts_history, ts_usage, tc_pc, tc_cur, tc_prompt, tc_histIn, tc_calls,
                   tc_nCalls, tc_nChunks, tc_final, tc_sink, tc_stream, tc_lastAll, tc_outcome,
                   tc_result, tc_turns>>

ToolAsk ==
    /\ UNCHANGED driverVars
    /\ \E s \in ToolSessions, prompt \in ToolPrompts : tool_ask_async(s, prompt)

ToolReset ==
    /\ UNCHANGED driverVars
    /\ \E s \in ToolSessions : reset(s)

ToolNext ==
    \/ ToolAsk
    \/ technical_support_specialist
    \/ billing_account_specialist
    \/ product_service_specialist
    \/ StreamChunk
    \/ StreamEnd
    \/ StreamRaises
    \/ ToolReset

(***************************************************************************)
(* City Insights: a chain of three prompts.                                *)
(***************************************************************************)
CityPrompts == {"q1", "q2"}
Cities == {"c1", "c2"}
Countries == {"k1"}
Histories == {"h1", "h2"}
Summaries == {"s1", "s2"}

\* CityDetailsResponse: every field is optional
CityDetailsResponse ==
    [city : {None} \cup {Some(c) : c \in Cities},
     country : {None} \cup {Some(k) : k \in Countries},
     region : {None} \cup {Some("r1")},
     country_capital : {None} \cup {Some("c1")},
     region_capital : {None} \cup {Some("c2")}]

\* a new CityInsightsState(): a pydantic model, whose fields belong to the instance
CityInsightsState ==
    [prompt |-> None, city_details |-> None, brief_history |-> None, summarized |-> None,
     usage |-> 0]

CityDetailResponse(city_details, summarized_history) ==
    [city_details |-> city_details, summarized_history |-> summarized_history]

Asked_prompt(stage, text) == [stage |-> stage, text |-> ci_state.prompt]

\* what a stage gives its agent: the user's prompt, or a template around a value
Asked(stage, text) == [stage |-> stage, text |-> text]

CityVarsInit ==
    /\ ci_pc = "idle"
    /\ ci_state = CityInsightsState
    /\ ci_stages = <<>>
    /\ ci_asked = <<>>
    /\ ci_outcome = "none"
    /\ ci_result = None
    /\ ci_runs = 0

\* CityInsights.get_details_async up to the start of graph.run
get_details_async(prompt) ==
    /\ UNCHANGED besideCity
    /\ ci_pc = "idle"
    /\ ci_runs < MaxRuns
    /\ ci_runs' = ci_runs + 1
    /\ ci_state' = [CityInsightsState EXCEPT !.prompt = Some(prompt)]
    /\ ci_pc' = "CityDetails"
    /\ ci_stages' = <<>>
    /\ ci_asked' = <<>>
    /\ ci_outcome' = "running"
    /\ ci_result' = None

CityDetails_next_always(city_details) == "CityHistory"

\* the branch at the end of CityDetails.run
CityDetails_next(city_details) ==
    IF city_details.city = None THEN "End" ELSE "CityHistory"

\* CityDetails.run
CityDetails_run ==
    /\ UNCHANGED notCity
    /\ ci_pc = "CityDetails"
    /\ \E data \in CityDetailsResponse :
        /\ ci_state' = [ci_state EXCEPT !.city_details = Some(data), !.usage = @ + 1]
        /\ ci_pc' = CityDetails_next(data)
    /\ ci_stages' = Append(ci_stages, "CityDetails")
    /\ ci_asked' = Append(ci_asked, Asked("CityDetails", ci_state.prompt))
    /\ UNCHANGED <<ci_outcome, ci_result, ci_runs>>

\* CityHistory.run
CityHistory_run ==
    /\ UNCHANGED notCity
    /\ ci_pc = "CityHistory"
    /\ \E data \in Histories :
        ci_state' = [ci_state EXCEPT !.brief_history = Some(data), !.usage = @ + 1]
    /\ ci_pc' = "SummarizeResult"
    /\ ci_stages' = Append(ci_stages, "CityHistory")
    /\ ci_asked' = Append(ci_asked, Asked("CityHistory", ci_state.city_details[1].city))
    /\ UNCHANGED <<ci_outcome, ci_result, ci_runs>>

\* SummarizeResult.run
SummarizeResult_run ==
    /\ UNCHANGED notCity
    /\ ci_pc = "SummarizeResult"
    /\ \E data \in Summaries :
        ci_state' = [ci_state EXCEPT !.summarized = Some(data), !.usage = @ + 1]
    /\ ci_pc' = "End"
    /\ ci_stages' = Append(ci_stages, "SummarizeResult")
    /\ ci_asked' = Append(ci_asked, Asked("SummarizeResult", ci_state.brief_history))
    /\ UNCHANGED <<ci_outcome, ci_result, ci_runs>>

\* a stage's agent call raises: the exception leaves graph.run and
\* get_details_async, graphState is dropped
CityRaises ==
    /\ UNCHANGED notCity
    /\ ci_pc \in {"CityDetails", "CityHistory", "SummarizeResult"}
    /\ ci_pc' = "idle"
    /\ ci_stages' = Append(ci_stages, ci_pc)
    /\ ci_outcome' = "raised"
    /\ ci_state' = CityInsightsState
    /\ UNCHANGED <<ci_asked, ci_result, ci_runs>>

\* the end of get_details_async: the CityDetailResponse is built from graphState
get_details_return ==
    /\ UNCHANGED notCity
    /\ ci_pc = "End"
    /\ ci_pc' = "idle"
    /\ ci_outcome' = "returned"
    /\ ci_result' = Some(CityDetailResponse(ci_state.city_details, ci_state.summarized))
    /\ ci_state' = CityInsightsState
    /\ UNCHANGED <<ci_stages, ci_asked, ci_runs>>

CityAsk ==
    /\ UNCHANGED driverVars
    /\ \E prompt \in CityPrompts : get_details_async(prompt)

CityNext ==
    \/ CityAsk
    \/ CityDetails_run
    \/ CityHistory_run
    \/ SummarizeResult_run
    \/ CityRaises
    \/ get_details_return

(***************************************************************************)
(* The mock project-tracking store.                                        *)
(*                                                                         *)
(* A string is [b, c]: b names the string up to letter case and c tells    *)
(* its case variants apart (0 is the lower-case one, as uuid4 prints).     *)
(***************************************************************************)
Str(b, c) == [b |-> b, c |-> c]
PyNone == Str(-1, 0)
EmptyStr == Str(0, 0)
\* an argument the caller leaves out, and what the callee then sees
Omitted == Str(-2, 0)
DefaultArg(arg, default) == IF arg = Omitted THEN default ELSE arg
Falsy(x) == x \in {PyNone, EmptyStr}

\* the uuid4 strings drawn for projects and for tasks, their upper-case
\* spellings, and an id no uuid4 call gave
ProjectUuid(n) == Str(n, 0)
TaskUuid(n) == Str(50 + n, 0)
Upper(x) == IF x.b > 0 THEN Str(x.b, 1) ELSE x
BogusId == Str(99, 0)
\* the names callers give to projects, the names they give to the tasks they
\* create, and the names they rename tasks to
ProjectNames == {Str(101, 0), Str(102, 0)}
TaskNames == {Str(201, 0)}
TaskRenames == {Str(201, 1)}
\* due dates: the literal "today", the current date as str(datetime.now().date())
\* prints it, and another date
TodayToken == Str(301, 0)
CurrentDate == Str(300, 0)
OtherDate == Str(302, 0)
\* statuses: the three the tool descriptions list, and a string that is none of them
NotStarted == Str(401, 0)
InProgress == Str(402, 0)
Completed == Str(403, 0)
OtherStatus == Str(404, 0)
Statuses == {NotStarted, InProgress, Completed}
\* what the callers of create_task pass for a due date and a status; no code
\* compares a status with the three listed ones, and one string outside them
\* stands for the statuses callers pass
DueDates == {Omitted, EmptyStr, TodayToken, OtherDate}
CreateStatuses == {Omitted, OtherStatus}
\* what the callers of update_task_status pass for a status
UpdateStatuses == {OtherStatus, EmptyStr}

\* SQL "column = ?" under the column's collation; NULL equals nothing
EqNoCase(col, param) == param # PyNone /\ col.b = param.b
EqBinary(col, param) == param # PyNone /\ col = param

Op(name, args) == [name |-> name, args |-> args]
Ret(kind, val) == [kind |-> kind, val |-> val]
Effect(P, T, ret) == [Project |-> P, Task |-> T, ret |-> ret]
RaisedWith(error) == Ret("raised", error)
Raised == RaisedWith("IntegrityError")
Idle == Op("idle", <<>>)

fetchone(rows) == IF rows = <<>> THEN None ELSE Some(rows[1])

ProjectLink(id) == [site |-> "https://example.com/projects/", id |-> id]
TaskLink(id) == [site |-> "https://example.com/tasks/", id |-> id]
AsanaProject(id, name, link) == [id |-> id, name |-> name, link |-> link]
AsanaTask(id, project_id, name, due_date, status, link) ==
    [id |-> id, project_id |-> project_id, name |-> name, due_date |-> due_date,
     status |-> status, link |-> link]

map_project(entity) == AsanaProject(entity.Id, entity.Name, ProjectLink(entity.Id))
map_task(entity) ==
    AsanaTask(entity.Id, entity.ProjectId, entity.Name, entity.DueDate, entity.Status,
              TaskLink(entity.Id))

\* the list comprehensions over cursor.fetchall()
map_projects(rows) == [i \in 1..Len(rows) |-> map_project(rows[i])]
map_tasks(rows) == [i \in 1..Len(rows) |-> map_task(rows[i])]

\* the WHERE clauses of the store's statements
\* Project.Id, Project.Name, Task.Id and Task.Name are declared COLLATE NOCASE
ProjectIdIs(r, id) == EqNoCase(r.Id, id)
ProjectNameIs_binary(r, name) == EqBinary(r.Name, name)
ProjectNameIs(r, name) == EqNoCase(r.Name, name)
TaskIdIs(r, id) == EqNoCase(r.Id, id)
TaskNameIs(r, name) == EqNoCase(r.Name, name)
\* Task.ProjectId is declared without a collation: it compares byte for byte
TaskProjectIdIs(r, id) == EqBinary(r.ProjectId, id)

\* ---- projects
create_project(P, T, uuid, project_name) ==
    IF project_name = PyNone THEN Effect(P, T, Raised)
    ELSE Effect(Append(P, [Id |-> uuid, Name |-> project_name]), T,
                Ret("project", AsanaProject(uuid, project_name, ProjectLink(uuid))))

get_project_id(P, T, project_name) ==
    LET result == fetchone(SelectSeq(P, LAMBDA r : ProjectNameIs(r, project_name)))
    IN Effect(P, T, IF result # None THEN Ret("id", result[1].Id) ELSE Ret("none", None))

get_project_by_id(P, T, project_id) ==
    LET entity == fetchone(SelectSeq(P, LAMBDA r : ProjectIdIs(r, project_id)))
    IN Effect(P, T, IF entity # None THEN Ret("project", map_project(entity[1]))
                    ELSE Ret("none", None))

get_project_by_name(P, T, project_name) ==
    LET entity == fetchone(SelectSeq(P, LAMBDA r : ProjectNameIs(r, project_name)))
    IN Effect(P, T, IF entity # None THEN Ret("project", map_project(entity[1]))
                    ELSE Ret("none", None))

update_project(P, T, project_id, name) ==
    LET entity == get_project_by_id(P, T, project_id).ret
    IN IF entity.kind = "none" THEN Effect(P, T, Ret("none", None))
       ELSE IF name = PyNone THEN Effect(P, T, Raised)
       ELSE Effect([i \in 1..Len(P) |->
                        IF ProjectIdIs(P[i], project_id) THEN [P[i] EXCEPT !.Name = name]
                        ELSE P[i]],
                   T, Ret("project", [entity.val EXCEPT !.name = name]))

get_projects(P, T) == Effect(P, T, Ret("projects", map_projects(P)))

delete_project_by_id_keep_tasks(P, T, project_id) ==
    IF ~Falsy(project_id)
    THEN Effect(SelectSeq(P, LAMBDA r : ~ProjectIdIs(r, project_id)), T, Ret("bool", TRUE))
    ELSE Effect(P, T, Ret("bool", FALSE))

delete_project_by_id(P, T, project_id) ==
    IF ~Falsy(project_id)
    THEN Effect(SelectSeq(P, LAMBDA r : ~ProjectIdIs(r, project_id)),
                SelectSeq(T, LAMBDA r : ~TaskProjectIdIs(r, project_id)),
                Ret("bool", TRUE))
    ELSE Effect(P, T, Ret("bool", FALSE))

delete_project(P, T, project_name) ==
    LET found == get_project_id(P, T, project_name).ret
        project_id == IF found.kind = "id" THEN found.val ELSE PyNone
    IN delete_project_by_id(P, T, project_id)

\* ---- tasks
\* the due-date default of create_task
DueDateOf_no_today(due_date) ==
    IF Falsy(due_date) THEN CurrentDate ELSE due_date

DueDateOf(due_date) ==
    IF Falsy(due_date) \/ due_date = TodayToken THEN CurrentDate ELSE due_date

create_task(P, T, uuid, project_id, task_name, due_date, status) ==
    IF project_id = PyNone \/ task_name = PyNone THEN Effect(P, T, Raised)
    ELSE LET due == DueDateOf(DefaultArg(due_date, PyNone))
             st == DefaultArg(status, NotStarted)
         IN Effect(P,
                   Append(T, [Id |-> uuid, ProjectId |-> project_id, Name |-> task_name,
                              DueDate |-> due, Status |-> st]),
                   Ret("task", AsanaTask(uuid, project_id, task_name, due, st, TaskLink(uuid))))

get_task_by_id_miss_raises(P, T, task_id) ==
    LET entity == fetchone(SelectSeq(T, LAMBDA r : TaskIdIs(r, task_id)))
    IN Effect(P, T, IF entity = None THEN RaisedWith("TypeError")
                    ELSE Ret("task", map_task(entity[1])))

get_task_by_id(P, T, task_id) ==
    LET entity == fetchone(SelectSeq(T, LAMBDA r : TaskIdIs(r, task_id)))
    IN Effect(P, T, IF entity = None THEN Ret("none", None) ELSE Ret("task", map_task(entity[1])))

get_task_by_name(P, T, project_name, name) ==
    LET project == get_project_by_name(P, T, project_name).ret
    IN IF project.kind = "none" THEN Effect(P, T, Ret("none", None))
       ELSE LET entity == fetchone(SelectSeq(T, LAMBDA r : TaskProjectIdIs(r, project.val.id)
                                                        /\ TaskNameIs(r, name)))
            IN Effect(P, T, IF entity = None THEN Ret("none", None)
                            ELSE Ret("task", map_task(entity[1])))

get_tasks_by_project_id(P, T, project_id) ==
    Effect(P, T, Ret("tasks", map_tasks(SelectSeq(T, LAMBDA r : TaskProjectIdIs(r, project_id)))))

\* the join compares t.ProjectId = p.Id under the left column's collation
get_tasks_by_project_name(P, T, project_name) ==
    Effect(P, T,
           Ret("tasks",
               map_tasks(SelectSeq(T, LAMBDA r :
                                   \E i \in 1..Len(P) : /\ TaskProjectIdIs(r, P[i].Id)
                                                        /\ ProjectNameIs(P[i], project_name)))))

update_task_status(P, T, task_id, status) ==
    IF ~Falsy(task_id) /\ ~Falsy(status)
    THEN Effect(P,
                [i \in 1..Len(T) |->
                    IF TaskIdIs(T[i], task_id) THEN [T[i] EXCEPT !.Status = status] ELSE T[i]],
                Ret("bool", TRUE))
    ELSE Effect(P, T, Ret("bool", FALSE))

update_task_returns_status(P, T, task_id, name, due_date, status) ==
    LET entity == get_task_by_id(P, T, task_id).ret
    IN IF entity.kind = "none" THEN Effect(P, T, Ret("none", None))
       ELSE IF name = PyNone THEN Effect(P, T, Raised)
       ELSE Effect(P,
                   [i \in 1..Len(T) |->
                       IF TaskIdIs(T[i], task_id)
                       THEN [T[i] EXCEPT !.Name = name, !.DueDate = due_date, !.Status = status]
                       ELSE T[i]],
                   Ret("task", [entity.val EXCEPT !.name = name, !.due_date = due_date,
                                                  !.status = status]))

update_task(P, T, task_id, name, due_date, status) ==
    LET entity == get_task_by_id(P, T, task_id).ret
    IN IF entity.kind = "none" THEN Effect(P, T, Ret("none", None))
       ELSE IF name = PyNone THEN Effect(P, T, Raised)
       ELSE Effect(P,
                   [i \in 1..Len(T) |->
                       IF TaskIdIs(T[i], task_id)
                       THEN [T[i] EXCEPT !.Name = name, !.DueDate = due_date, !.Status = status]
                       ELSE T[i]],
                   Ret("task", [entity.val EXCEPT !.name = name, !.due_date = due_date,
                                                  !.status = due_date]))

delete_task_by_id(P, T, task_id) ==
    IF ~Falsy(task_id)
    THEN Effect(P, SelectSeq(T, LAMBDA r : ~TaskIdIs(r, task_id)), Ret("bool", TRUE))
    ELSE Effect(P, T, Ret("bool", FALSE))

delete_task_by_name_unchecked(P, T, project_name, name) ==
    LET project == get_project_by_name(P, T, project_name).ret
    IN IF project.kind = "none" THEN Effect(P, T, Ret("bool", FALSE))
       ELSE Effect(P,
                   SelectSeq(T, LAMBDA r : ~(TaskProjectIdIs(r, project.val.id) /\ TaskNameIs(r, name))),
                   Ret("bool", TRUE))

delete_task_by_name(P, T, project_name, name) ==
    LET project == get_project_by_name(P, T, project_name).ret
    IN IF project.kind = "none" THEN Effect(P, T, Ret("bool", FALSE))
       ELSE IF ~Falsy(name)
       THEN Effect(P,
                   SelectSeq(T, LAMBDA r : ~(TaskProjectIdIs(r, project.val.id) /\ TaskNameIs(r, name))),
                   Ret("bool", TRUE))
       ELSE Effect(P, T, Ret("bool", FALSE))

purge_all_data(P, T) == Effect(<<>>, <<>>, Ret("none", None))

(***************************************************************************)
(* The tool adapter of the store (asana_tools.py).                         *)
(***************************************************************************)
Tool(name, function, description) ==
    [name |-> name, function |-> function, description |-> description]

AsanaTools_tools_with_purge ==
    << Tool("create_project", "create_project", "Creates a project by name"),
       Tool("get_project_id", "get_project_id", "Gets a project id by project name"),
       Tool("get_project_by_id", "get_project_by_id", "Gets a project object by project id"),
       Tool("get_project_by_name", "get_project_by_name", "Gets a project object by project name"),
       Tool("get_projects", "get_projects", "Gets all existing project objects. Takes no arguments."),
       Tool("update_project", "update_project", "Updates an existing project object for a given project id"),
       Tool("delete_project_by_id", "delete_project_by_id", "Deletes an existing project object by project id"),
       Tool("delete_project", "delete_project", "Deletes an existing project object by project name"),
       Tool("create_task", "create_task", "Creates a task by name for a given project id"),
       Tool("get_task_by_id", "get_task_by_id", "Gets a task by task id"),
       Tool("get_task_by_name", "get_task_by_name",
            "Gets a task for a given project using the project name and task name"),
       Tool("get_tasks_by_project_id", "get_tasks_by_project_id",
            "Gets all existing task objects for a given project id"),
       Tool("get_tasks_by_project_name", "get_tasks_by_project_name",
            "Gets all existing task objects for a given project name"),
       Tool("update_task_status", "update_task_status",
            "Updates an existing task object's status for a given task id"),
       Tool("update_task", "update_task", "Updates an existing task object for a given task id"),
       Tool("delete_task_by_id", "delete_task_by_id", "Deletes an existing task object by task id"),
       Tool("delete_task_by_name", "delete_task_by_name",
            "Deletes an existing task object for a given project name and for a given task name"),
       Tool("purge_all_data", "purge_all_data", "Deletes all projects and tasks") >>

\* self.__tools__ as AsanaTools.__init__ leaves it: the Tool objects appended,
\* in order, each with the AsanaTools method it is bound to
AsanaTools_tools ==
    << Tool("create_project", "create_project", "Creates a project by name"),
       Tool("get_project_id", "get_project_id", "Gets a project id by project name"),
       Tool("get_project_by_id", "get_project_by_id", "Gets a project object by project id"),
       Tool("get_project_by_name", "get_project_by_name", "Gets a project object by project name"),
       Tool("get_projects", "get_projects", "Gets all existing project objects. Takes no arguments."),
       Tool("update_project", "update_project", "Updates an existing project object for a given project id"),
       Tool("delete_project_by_id", "delete_project_by_id", "Deletes an existing project object by project id"),
       Tool("delete_project", "delete_project", "Deletes an existing project object by project name"),
       Tool("create_task", "create_task", "Creates a task by name for a given project id"),
       Tool("get_task_by_id", "get_task_by_id", "Gets a task by task id"),
       Tool("get_task_by_name", "get_task_by_name",
            "Gets a task for a given project using the project name and task name"),
       Tool("get_tasks_by_project_id", "get_tasks_by_project_id",
            "Gets all existing task objects for a given project id"),
       Tool("get_tasks_by_project_name", "get_tasks_by_project_name",
            "Gets all existing task objects for a given project name"),
       Tool("update_task_status", "update_task_status",
            "Updates an existing task object's status for a given task id"),
       Tool("update_task", "update_task", "Updates an existing task object for a given task id"),
       Tool("delete_task_by_id", "delete_task_by_id", "Deletes an existing task object by task id"),
       Tool("delete_task_by_name", "delete_task_by_name",
            "Deletes an existing task object for a given project name and for a given task name") >>

\* AsanaTools.get_tools
get_tools == at_tools

\* the public methods of Asana_Api, projects first
ProjectOperations ==
    {"create_project", "get_project_id", "get_project_by_id", "get_project_by_name",
     "update_project", "get_projects", "delete_project_by_id", "delete_project"}
TaskOperations ==
    {"create_task", "get_task_by_id", "get_task_by_name", "get_tasks_by_project_id",
     "get_tasks_by_project_name", "update_task_status", "update_task", "delete_task_by_id",
     "delete_task_by_name"}
StoreOperations == {"purge_all_data"} \cup ProjectOperations \cup TaskOperations

\* ---- the text the update_task tool is given as its model
\* a text is decodable JSON or not; when it is an object, members lists its
\* name/value pairs in the order written
JsonText(decodable, members) == [decodable |-> decodable, members |-> members]
Member(key, value) == <<key, value>>
TaskUpdateJson(name, due_date, status) ==
    JsonText(TRUE, <<Member("name", name), Member("due_date", due_date),
                     Member("status", status)>>)

\* json.loads: a dict holding, for each key, the value of its last member
json_loads(text) ==
    IF ~text.decodable THEN RaisedWith("JSONDecodeError")
    ELSE LET keys == {text.members[i][1] : i \in 1..Len(text.members)}
             last(k) == CHOOSE i \in 1..Len(text.members) :
                            /\ text.members[i][1] = k
                            /\ \A j \in (i + 1)..Len(text.members) : text.members[j][1] # k
         IN Ret("dict", [k \in keys |-> text.members[last(k)][2]])

AsanaTaskUpdate_lenient(data_model) ==
    LET field(k) == IF k \in DOMAIN data_model THEN data_model[k] ELSE PyNone
    IN Ret("model", [name |-> field("name"), due_date |-> field("due_date"),
                     status |-> field("status")])

\* AsanaTaskUpdate(**data_model): the dataclass takes its three fields, no
\* fewer and no other
AsanaTaskUpdate(data_model) ==
    IF DOMAIN data_model = {"name", "due_date", "status"}
    THEN Ret("model", [name |-> data_model["name"], due_date |-> data_model["due_date"],
                       status |-> data_model["status"]])
    ELSE RaisedWith("TypeError")

\* ---- the tool functions
AsanaTools_create_project(P, T, uuid, project_name) == create_project(P, T, uuid, project_name)

AsanaTools_get_project_id(P, T, project_name) == get_project_id(P, T, project_name)

AsanaTools_get_project_by_id(P, T, project_id) == get_project_by_id(P, T, project_id)

AsanaTools_get_project_by_name(P, T, project_name) == get_project_by_name(P, T, project_name)

AsanaTools_get_projects(P, T) == get_projects(P, T)

\* model is passed on as it is; the store reads its name
AsanaTools_update_project(P, T, project_id, name) == update_project(P, T, project_id, name)

AsanaTools_delete_project_by_id(P, T, project_id) == delete_project_by_id(P, T, project_id)

AsanaTools_delete_project(P, T, project_name) == delete_project(P, T, project_name)

AsanaTools_create_task_no_status(P, T, uuid, project_id, task_name, due_date, status) ==
    create_task(P, T, uuid, project_id, task_name, DefaultArg(due_date, PyNone), PyNone)

AsanaTools_create_task(P, T, uuid, project_id, task_name, due_date, status) ==
    create_task(P, T, uuid, project_id, task_name,
                DefaultArg(due_date, PyNone), DefaultArg(status, NotStarted))

AsanaTools_get_task_by_id(P, T, task_id) == get_task_by_id(P, T, task_id)

AsanaTools_get_task_by_name(P, T, project_name, name) == get_task_by_name(P, T, project_name, name)

AsanaTools_get_tasks_by_project_id(P, T, project_id) == get_tasks_by_project_id(P, T, project_id)

AsanaTools_get_tasks_by_project_name(P, T, project_name) ==
    get_tasks_by_project_name(P, T, project_name)

AsanaTools_update_task_status(P, T, task_id, status) == update_task_status(P, T, task_id, status)

AsanaTools_update_task_swapped(P, T, task_id, model) ==
    LET data_model == json_loads(model)
        update_model == IF data_model.kind = "dict" THEN AsanaTaskUpdate(data_model.val)
                        ELSE data_model
    IN IF update_model.kind = "raised" THEN Effect(P, T, update_model)
       ELSE update_task(P, T, task_id, update_model.val.name, update_model.val.status,
                        update_model.val.due_date)

AsanaTools_update_task(P, T, task_id, model) ==
    LET data_model == json_loads(model)
        update_model == IF data_model.kind = "dict" THEN AsanaTaskUpdate(data_model.val)
                        ELSE data_model
    IN IF update_model.kind = "raised" THEN Effect(P, T, update_model)
       ELSE update_task(P, T, task_id, update_model.val.name, update_model.val.due_date,
                        update_model.val.status)

AsanaTools_delete_task_by_id(P, T, task_id) == delete_task_by_id(P, T, task_id)

AsanaTools_delete_task_by_name(P, T, project_name, name) ==
    delete_task_by_name(P, T, project_name, name)

\* ---- connections
Connection_no_finally(body) ==
    IF body # <<>> /\ body[Len(body)] = "raise" THEN <<"connect">> \o body
    ELSE <<"connect">> \o body \o <<"close">>

\* client = SqlLiteClient("asana.db"), then try: body, finally: client.close()
Connection(body) == <<"connect">> \o body \o <<"close">>

\* the body of a writing operation: its statement, which may raise, and the commit
Writes(ret) == IF ret = Raised THEN <<"raise">> ELSE <<"execute", "commit">>

\* one SELECT on a connection of its own
Lookup == Connection(<<"execute">>)

\* what each operation of Asana_Api does with connections, called with args
\* on tables P and T and giving ret
ConnectionsOf(name, args, P, T, ret) ==
    CASE name \in {"create_project", "create_task"} -> Connection(Writes(ret))
      [] name \in {"get_project_id", "get_project_by_id", "get_project_by_name", "get_projects",
                   "get_task_by_id", "get_tasks_by_project_id", "get_tasks_by_project_name"} ->
            Lookup
      [] name = "update_project" ->
            Lookup \o Connection(IF get_project_by_id(P, T, args[1]).ret.kind = "none" THEN <<>>
                                 ELSE Writes(ret))
      [] name = "delete_project_by_id" ->
            Connection(IF ~Falsy(args[1]) THEN <<"execute", "execute", "commit">> ELSE <<>>)
      [] name = "delete_project" ->
            Lookup \o Connection(IF get_project_id(P, T, args[1]).ret.kind = "id"
                                 THEN <<"execute", "execute", "commit">> ELSE <<>>)
      [] name = "get_task_by_name" ->
            Lookup \o (IF get_project_by_name(P, T, args[1]).ret.kind = "none" THEN <<>>
                       ELSE Lookup)
      [] name \in {"update_task_status"} ->
            IF ~Falsy(args[1]) /\ ~Falsy(args[2]) THEN Connection(<<"execute", "commit">>)
            ELSE <<>>
      [] name = "update_task" ->
            IF ret.kind = "raised" /\ ret # Raised THEN <<>>
            ELSE Lookup \o (IF get_task_by_id(P, T, args[1]).ret.kind = "none" THEN <<>>
                            ELSE Connection(Writes(ret)))
      [] name = "delete_task_by_id" ->
            IF ~Falsy(args[1]) THEN Connection(<<"execute", "commit">>) ELSE <<>>
      [] name = "delete_task_by_name" ->
            Lookup \o (IF get_project_by_name(P, T, args[1]).ret.kind = "none" THEN <<>>
                       ELSE IF ~Falsy(args[2]) THEN Connection(<<"execute", "commit">>)
                       ELSE <<>>)
      [] name = "purge_all_data" ->
            Connection(<<"execute", "execute", "commit">>)
                \o Connection(<<"execute", "execute", "commit">>)

\* ---- the calls made on the store
StoreVarsInit ==
    /\ Project = <<>>
    /\ Task = <<>>
    /\ db_nProjects = 0
    /\ db_nTasks = 0
    /\ db_op = Idle
    /\ db_ret = Ret("none", None)
    /\ db_pre = <<<<>>, <<>>>>
    /\ db_conns = <<>>
    /\ at_tools = AsanaTools_tools

\* the names an agent holding get_tools() can invoke
ToolNames == {get_tools[i].name : i \in 1..Len(get_tools)}

\* a call, made when the caller holds no result: the tables and the return
\* value become what the operation gives
Call(name, args, effect) ==
    /\ UNCHANGED notStore
    /\ Project' = effect.Project
    /\ Task' = effect.Task
    /\ db_op' = Op(name, args)
    /\ db_ret' = effect.ret
    /\ db_pre' = <<Project, Task>>
    /\ db_conns' = ConnectionsOf(name, args, Project, Task, effect.ret)
    /\ UNCHANGED at_tools

\* the ids and names callers pass: every id drawn so far in both spellings, an
\* id never drawn, the empty string; project and task names likewise
ProjectIdArgs ==
    {ProjectUuid(n) : n \in 1..db_nProjects} \cup {Upper(ProjectUuid(n)) : n \in 1..db_nProjects}
        \cup {BogusId, EmptyStr}
TaskIdArgs ==
    {TaskUuid(n) : n \in 1..db_nTasks} \cup {Upper(TaskUuid(n)) : n \in 1..db_nTasks}
        \cup {BogusId, EmptyStr}
ProjectNameArgs == ProjectNames \cup {Upper(Str(101, 0)), EmptyStr}
TaskNameArgs == TaskNames \cup TaskRenames \cup {EmptyStr}
\* the project ids callers of create_task pass: an id a create_project returned,
\* an id no project has, None
CreateTaskProjectIds == {ProjectUuid(n) : n \in 1..db_nProjects} \cup {BogusId, PyNone}
\* the update a caller of update_task asks for
UpdateNames == TaskRenames \cup {PyNone}
UpdateDueDates == {OtherDate}
UpdateTaskStatuses == {OtherStatus}
\* the texts a caller of the update_task tool passes that are no such update:
\* not JSON, an object without status, an object with a member too many
BadUpdateTexts ==
    {JsonText(FALSE, <<>>),
     JsonText(TRUE, <<Member("name", Str(201, 1)), Member("due_date", OtherDate)>>),
     JsonText(TRUE, <<Member("name", Str(201, 1)), Member("due_date", OtherDate),
                      Member("status", OtherStatus), Member("id", BogusId)>>)}
\* the texts passed to the update_task tool
UpdateTexts ==
    {TaskUpdateJson(name, due_date, status) :
        name \in UpdateNames, due_date \in UpdateDueDates, status \in UpdateTaskStatuses}
        \cup BadUpdateTexts

do_create_project ==
    /\ db_op = Idle
    /\ db_nProjects + db_nTasks < MaxUuids
    /\ db_nProjects' = db_nProjects + 1
    /\ UNCHANGED db_nTasks
    /\ "create_project" \in ToolNames
    /\ \E project_name \in ProjectNames \cup {PyNone} :
        Call("create_project", <<project_name>>,
             AsanaTools_create_project(Project, Task, ProjectUuid(db_nProjects + 1), project_name))

do_get_project_id ==
    /\ db_op = Idle
    /\ UNCHANGED <<db_nProjects, db_nTasks>>
    /\ "get_project_id" \in ToolNames
    /\ \E project_name \in ProjectNameArgs :
        Call("get_project_id", <<project_name>>,
             AsanaTools_get_project_id(Project, Task, project_name))

do_get_project_by_id ==
    /\ db_op = Idle
    /\ UNCHANGED <<db_nProjects, db_nTasks>>
    /\ "get_project_by_id" \in ToolNames
    /\ \E project_id \in ProjectIdArgs :
        Call("get_project_by_id", <<project_id>>,
             AsanaTools_get_project_by_id(Project, Task, project_id))

do_get_project_by_name ==
    /\ db_op = Idle
    /\ UNCHANGED <<db_nProjects, db_nTasks>>
    /\ "get_project_by_name" \in ToolNames
    /\ \E project_name \in ProjectNameArgs :
        Call("get_project_by_name", <<project_name>>,
             AsanaTools_get_project_by_name(Project, Task, project_name))

do_update_project ==
    /\ db_op = Idle
    /\ UNCHANGED <<db_nProjects, db_nTasks>>
    /\ "update_project" \in ToolNames
    /\ \E project_id \in ProjectIdArgs, name \in ProjectNames \cup {PyNone} :
        Call("update_project", <<project_id, name>>,
             AsanaTools_update_project(Project, Task, project_id, name))

do_get_projects ==
    /\ db_op = Idle
    /\ UNCHANGED <<db_nProjects, db_nTasks>>
    /\ "get_projects" \in ToolNames
    /\ Call("get_projects", <<>>, AsanaTools_get_projects(Project, Task))

do_delete_project_by_id ==
    /\ db_op = Idle
    /\ UNCHANGED <<db_nProjects, db_nTasks>>
    /\ "delete_project_by_id" \in ToolNames
    /\ \E project_id \in ProjectIdArgs \cup {PyNone} :
        Call("delete_project_by_id", <<project_id>>,
             AsanaTools_delete_project_by_id(Project, Task, project_id))

do_delete_project ==
    /\ db_op = Idle
    /\ UNCHANGED <<db_nProjects, db_nTasks>>
    /\ "delete_project" \in ToolNames
    /\ \E project_name \in ProjectNameArgs :
        Call("delete_project", <<project_name>>,
             AsanaTools_delete_project(Project, Task, project_name))

do_create_task ==
    /\ db_op = Idle
    /\ db_nProjects + db_nTasks < MaxUuids
    /\ db_nTasks' = db_nTasks + 1
    /\ UNCHANGED db_nProjects
    /\ "create_task" \in ToolNames
    /\ \E project_id \in CreateTaskProjectIds, task_name \in TaskNames, due_date \in DueDates, status \in CreateStatuses :
        Call("create_task", <<project_id, task_name, due_date, status>>,
             AsanaTools_create_task(Project, Task, TaskUuid(db_nTasks + 1), project_id, task_name, due_date, status))

do_get_task_by_id ==
    /\ db_op = Idle
    /\ UNCHANGED <<db_nProjects, db_nTasks>>
    /\ "get_task_by_id" \in ToolNames
    /\ \E task_id \in TaskIdArgs :
        Call("get_task_by_id", <<task_id>>,
             AsanaTools_get_task_by_id(Project, Task, task_id))

do_get_task_by_name ==
    /\ db_op = Idle
    /\ UNCHANGED <<db_nProjects, db_nTasks>>
    /\ "get_task_by_name" \in ToolNames
    /\ \E project_name \in ProjectNameArgs, name \in TaskNameArgs :
        Call("get_task_by_name", <<project_name, name>>,
             AsanaTools_get_task_by_name(Project, Task, project_name, name))

do_get_tasks_by_project_id ==
    /\ db_op = Idle
    /\ UNCHANGED <<db_nProjects, db_nTasks>>
    /\ "get_tasks_by_project_id" \in ToolNames
    /\ \E project_id \in ProjectIdArgs :
        Call("get_tasks_by_project_id", <<project_id>>,
             AsanaTools_get_tasks_by_project_id(Project, Task, project_id))

do_get_tasks_by_project_name ==
    /\ db_op = Idle
    /\ UNCHANGED <<db_nProjects, db_nTasks>>
    /\ "get_tasks_by_project_name" \in ToolNames
    /\ \E project_name \in ProjectNameArgs :
        Call("get_tasks_by_project_name", <<project_name>>,
             AsanaTools_get_tasks_by_project_name(Project, Task, project_name))

do_update_task_status ==
    /\ db_op = Idle
    /\ UNCHANGED <<db_nProjects, db_nTasks>>
    /\ "update_task_status" \in ToolNames
    /\ \E task_id \in TaskIdArgs, status \in UpdateStatuses :
        Call("update_task_status", <<task_id, status>>,
             AsanaTools_update_task_status(Project, Task, task_id, status))

do_update_task ==
    /\ db_op = Idle
    /\ UNCHANGED <<db_nProjects, db_nTasks>>
    /\ "update_task" \in ToolNames
    /\ \E task_id \in TaskIdArgs, model \in UpdateTexts :
        Call("update_task", <<task_id, model>>,
             AsanaTools_update_task(Project, Task, task_id, model))

do_delete_task_by_id ==
    /\ db_op = Idle
    /\ UNCHANGED <<db_nProjects, db_nTasks>>
    /\ "delete_task_by_id" \in ToolNames
    /\ \E task_id \in TaskIdArgs :
        Call("delete_task_by_id", <<task_id>>,
             AsanaTools_delete_task_by_id(Project, Task, task_id))

do_delete_task_by_name ==
    /\ db_op = Idle
    /\ UNCHANGED <<db_nProjects, db_nTasks>>
    /\ "delete_task_by_name" \in ToolNames
    /\ \E project_name \in ProjectNameArgs, name \in TaskNameArgs :
        Call("delete_task_by_name", <<project_name, name>>,
             AsanaTools_delete_task_by_name(Project, Task, project_name, name))

\* Asana_Api.purge_all_data, which no tool wraps, called on the store itself
do_purge_all_data ==
    /\ db_op = Idle
    /\ UNCHANGED <<db_nProjects, db_nTasks>>
    /\ Call("purge_all_data", <<>>, purge_all_data(Project, Task))

\* the caller has the result and goes on to its next call
StoreResume ==
    /\ UNCHANGED notStore
    /\ db_op # Idle
    /\ db_op' = Idle
    /\ db_ret' = Ret("none", None)
    /\ db_pre' = <<<<>>, <<>>>>
    /\ db_conns' = <<>>
    /\ UNCHANGED <<Project, Task, db_nProjects, db_nTasks, at_tools>>

StoreNext ==
    \/ do_create_project
    \/ do_get_project_id
    \/ do_get_project_by_id
    \/ do_get_project_by_name
    \/ do_update_project
    \/ do_get_projects
    \/ do_delete_project_by_id
    \/ do_delete_project
    \/ do_create_task
    \/ do_get_task_by_id
    \/ do_get_task_by_name
    \/ do_get_tasks_by_project_id
    \/ do_get_tasks_by_project_name
    \/ do_update_task_status
    \/ do_update_task
    \/ do_delete_task_by_id
    \/ do_delete_task_by_name
    \/ do_purge_all_data
    \/ StoreResume

(***************************************************************************)
(* A MessageHistory object on its own, and its wire form.                  *)
(*                                                                         *)
(* A text is a sequence of characters. In the wire form a character that   *)
(* JSON cannot carry as it is travels as an escape sequence.               *)
(***************************************************************************)
Quote == "\""
Backslash == "\\"
\* the character e with an acute accent, which is not ASCII
EAcute == "U+00E9"
EAcuteEscape == <<Backslash, "u", "0", "0", "e", "9">>

RECURSIVE EscapeJson_lossy(_, _)
EscapeJson_lossy(text, ensure_ascii) ==
    IF text = <<>> THEN <<>>
    ELSE (IF Head(text) \in {Quote, Backslash} THEN <<Backslash, Head(text)>>
          ELSE IF Head(text) = EAcute /\ ensure_ascii THEN <<"?">>
          ELSE <<Head(text)>>)
         \o EscapeJson_lossy(Tail(text), ensure_ascii)

RECURSIVE EscapeJson(_, _)
\* a text as a JSON string body: quotes and backslashes are escaped, and by
\* json.dumps (ensure_ascii) every character that is not ASCII too
EscapeJson(text, ensure_ascii) ==
    IF text = <<>> THEN <<>>
    ELSE (IF Head(text) \in {Quote, Backslash} THEN <<Backslash, Head(text)>>
          ELSE IF Head(text) = EAcute /\ ensure_ascii THEN EAcuteEscape
          ELSE <<Head(text)>>)
         \o EscapeJson(Tail(text), ensure_ascii)

RECURSIVE UnescapeJson(_)
\* the text a JSON string body stands for, as json.loads reads it
UnescapeJson(wire) ==
    IF wire = <<>> THEN <<>>
    ELSE IF Head(wire) # Backslash THEN <<Head(wire)>> \o UnescapeJson(Tail(wire))
    ELSE IF Len(wire) >= 6 /\ SubSeq(wire, 1, 6) = EAcuteEscape
         THEN <<EAcute>> \o UnescapeJson(SubSeq(wire, 7, Len(wire)))
    ELSE <<wire[2]>> \o UnescapeJson(SubSeq(wire, 3, Len(wire)))

\* the JSON object of a message, its parts holding the given contents by position
JsonMessage(message, contents) ==
    [kind |-> message.kind,
     parts |-> [j \in 1..Len(message.parts) |->
                    [part_kind |-> message.parts[j].part_kind, content |-> contents[j]]]]

\* ModelMessagesTypeAdapter.dump_json: UTF-8 JSON, one object per message
\* holding its kind and its parts, each part its part_kind and content
dump_json(messages) ==
    [i \in 1..Len(messages) |->
        JsonMessage(messages[i],
                    [j \in 1..Len(messages[i].parts) |->
                        EscapeJson(messages[i].parts[j].content, FALSE)])]

\* json.loads of a JSON array of such objects: Python lists and dicts
json_loads_array(json_str) ==
    [i \in 1..Len(json_str) |->
        JsonMessage(json_str[i],
                    [j \in 1..Len(json_str[i].parts) |->
                        UnescapeJson(json_str[i].parts[j].content)])]

\* json.dumps(parsed_json, indent=indent): the text, laid out by indent
json_dumps(parsed_json, indent) ==
    [indent |-> indent,
     array |-> [i \in 1..Len(parsed_json) |->
                    JsonMessage(parsed_json[i],
                                [j \in 1..Len(parsed_json[i].parts) |->
                                    EscapeJson(parsed_json[i].parts[j].content, TRUE)])]]

\* MessageHistory.messages_to_json
messages_to_json(messages, indent) == json_dumps(json_loads_array(dump_json(messages)), indent)

\* MessageHistory.to_json
to_json(messages, indent) == messages_to_json(messages, indent)

HistoryTexts == {<<"a">>, <<Quote, EAcute, Backslash>>}
\* an object that is a part of neither family
NotAPart == Part("ModelRequest", <<"a">>, 0)
AppendArgs ==
    {Part(kind, content, 0) : kind \in {"user-prompt", "text"}, content \in HistoryTexts}
        \cup {Part("system-prompt", <<"a">>, 0), NotAPart}
\* a transcript as an agent run returns it: the first request holds two equal
\* system prompts around the user prompt
AssignArgs ==
    {<<ModelRequest(<<Part("system-prompt", <<"a">>, 0), Part("user-prompt", <<"a">>, 0),
                      Part("system-prompt", <<"a">>, 0)>>),
       ModelResponse(<<Part("text", <<"a">>, 0)>>)>>}
RemoveArgs == {"system-prompt", "text"}
\* indent: None is 0
Indents == {0, 2}

HistoryCall(name, arg) == [name |-> name, arg |-> arg]
Self == [kind |-> "self", val |-> <<>>]

HistoryVarsInit ==
    /\ mh_messages = <<>>
    /\ mh_ops = <<>>
    /\ mh_pre = <<>>
    /\ mh_ret = Self

\* one method call on the object: what it leaves in __messages and what it returns
HistoryStep(name, arg, messages, ret) ==
    /\ UNCHANGED notHistory
    /\ Len(mh_ops) < MaxHistoryOps
    /\ mh_ops' = Append(mh_ops, HistoryCall(name, arg))
    /\ mh_pre' = mh_messages
    /\ mh_messages' = messages
    /\ mh_ret' = ret

mh_assign == \E new \in AssignArgs : HistoryStep("assign", new, assign(mh_messages, new), Self)

mh_append ==
    \E part \in AppendArgs :
        LET r == append(mh_messages, part)
        IN HistoryStep("append", part, r.messages,
                       IF r.ok THEN Self ELSE [kind |-> "raised", val |-> "TypeError"])

mh_remove_part_kind ==
    \E part_kind \in RemoveArgs :
        HistoryStep("remove_part_kind", part_kind, remove_part_kind(mh_messages, part_kind), Self)

mh_to_json ==
    \E indent \in Indents :
        HistoryStep("to_json", indent, mh_messages,
                    [kind |-> "str", val |-> to_json(mh_messages, indent)])

HistoryNext ==
    \/ mh_assign
    \/ mh_append
    \/ mh_remove_part_kind
    \/ mh_to_json

(***************************************************************************)
(* The terminal loops: main_async of the four programs.                    *)
(*                                                                         *)
(* One action reads a line and runs the loop body up to the first await of *)
(* a turn; the turn's own steps follow; a last action is the rest of the   *)
(* try statement once the awaited call has returned or raised.             *)
(***************************************************************************)
Programs == {"console", "city", "graph", "tool"}
\* what Prompt.ask returns: "" when the user just presses enter. No program
\* reserves "Exit", which stands for every line that is a query.
Lines == {"", "exit", "Exit", "clear", "reset"}
\* a line as a text of the framework, in one piece
TextOf(line) == <<line>>

Printed(kind, val) == [kind |-> kind, val |-> val]
ClearScreen == Printed("cls", "")
ColourReset == Printed("reset", "")

\* the lower-case form of a line
Lower(line) == IF line = "Exit" THEN "exit" ELSE line

Matches_ignoring_case(prompt, token) == Lower(prompt) = token

\* prompt == "token": Python's string equality
Matches(prompt, token) == prompt = token

except_propagates == "exited"

\* except Exception as e: print(...): the loop goes on to its next round
except_Exception == "prompt"

DriverVarsInit(program) ==
    /\ dr_program = program
    /\ dr_pc = "prompt"
    /\ dr_line = None
    /\ dr_out = <<>>
    /\ dr_outcome = "none"
    /\ dr_errors = 0

\* the loop's own variables after a line was read
Read(prompt, pc, out, outcome) ==
    /\ dr_line' = Some(prompt)
    /\ dr_pc' = pc
    /\ dr_out' = out
    /\ dr_outcome' = outcome
    /\ UNCHANGED <<dr_program, dr_errors>>

\* the loop's own variables after the try statement of a turn: out is what it
\* printed, ending with the error's message when an exception was caught
Tried(out) ==
    LET caught == out # <<>> /\ out[Len(out)].kind = "Error"
    IN /\ dr_out' = dr_out \o out
       /\ dr_pc' = IF caught THEN except_Exception ELSE "prompt"
       /\ dr_outcome' = IF caught THEN "raised" ELSE "returned"
       /\ dr_errors' = IF caught THEN dr_errors + 1 ELSE dr_errors
       /\ UNCHANGED <<dr_program, dr_line>>

\* ---- call_centre_multi_agent.py
graph_main_async ==
    /\ dr_program = "graph"
    /\ dr_pc = "prompt"
    /\ \E prompt \in Lines :
        IF prompt = "" THEN
            /\ Read(prompt, "prompt", <<>>, dr_outcome)
            /\ UNCHANGED <<graphVars, besideGraph>>
        ELSE IF Matches(prompt, "exit") THEN
            /\ Read(prompt, "exited", <<>>, dr_outcome)
            /\ UNCHANGED <<graphVars, besideGraph>>
        ELSE IF Matches(prompt, "clear") THEN
            /\ Read(prompt, "prompt", <<ClearScreen>>, dr_outcome)
            /\ UNCHANGED <<graphVars, besideGraph>>
        ELSE IF Matches(prompt, "reset") THEN
            /\ Read(prompt, "prompt", <<ClearScreen>>, dr_outcome)
            /\ reset_state(1)
        ELSE
            /\ cc_turns < MaxQueries
            /\ Read(prompt, "try", <<>>, "running")
            /\ ask_async(1, prompt)

\* what the try statement prints once ask_async has returned result
PrintGraph(result) ==
    <<Printed("specialist", result.specialist)>>
    \o (IF result.response = "none" THEN <<Printed("Error", "TypeError")>>
        ELSE <<Printed("response", result.response)>>)

graph_main_async_print ==
    /\ dr_program = "graph"
    /\ dr_pc = "try"
    /\ cc_pc = "idle"
    /\ Tried(IF cc_outcome = "returned" THEN PrintGraph(cc_result[1])
             ELSE <<Printed("Error", "Exception")>>)
    /\ UNCHANGED <<graphVars, besideGraph>>

\* ---- call_centre_multi_agent_as_tools.py
tool_main_async ==
    /\ dr_program = "tool"
    /\ dr_pc = "prompt"
    /\ \E prompt \in Lines :
        IF prompt = "" THEN
            /\ Read(prompt, "prompt", <<>>, dr_outcome)
            /\ UNCHANGED <<toolVars, besideTool>>
        ELSE IF Matches(prompt, "exit") THEN
            /\ Read(prompt, "exited", <<>>, dr_outcome)
            /\ UNCHANGED <<toolVars, besideTool>>
        ELSE IF Matches(prompt, "clear") THEN
            /\ Read(prompt, "prompt", <<ClearScreen>>, dr_outcome)
            /\ UNCHANGED <<toolVars, besideTool>>
        ELSE IF Matches(prompt, "reset") THEN
            /\ Read(prompt, "prompt", <<ClearScreen>>, dr_outcome)
            /\ reset(1)
        ELSE
            /\ tc_turns < MaxQueries
            /\ Read(prompt, "try", <<>>, "running")
            /\ tool_ask_async(1, TextOf(prompt))

\* the fragments are printed by the callback as they arrive (tc_sink)
tool_main_async_print ==
    /\ dr_program = "tool"
    /\ dr_pc = "try"
    /\ tc_pc = "idle"
    /\ Tried(IF tc_outcome = "returned" THEN <<>> ELSE <<Printed("Error", "Exception")>>)
    /\ UNCHANGED <<toolVars, besideTool>>

\* ---- city_insights.py
city_main_async ==
    /\ dr_program = "city"
    /\ dr_pc = "prompt"
    /\ \E prompt \in Lines :
        IF prompt = "" THEN
            /\ Read(prompt, "prompt", <<>>, dr_outcome)
            /\ UNCHANGED <<cityVars, besideCity>>
        ELSE IF Matches(prompt, "exit") THEN
            /\ Read(prompt, "exited", <<>>, dr_outcome)
            /\ UNCHANGED <<cityVars, besideCity>>
        ELSE IF Matches(prompt, "clear") THEN
            /\ Read(prompt, "prompt", <<ClearScreen>>, dr_outcome)
            /\ UNCHANGED <<cityVars, besideCity>>
        ELSE
            /\ ci_runs < MaxQueries
            /\ Read(prompt, "try", <<>>, "running")
            /\ get_details_async(prompt)

PrintCity_always_details(result) ==
    <<Printed("details", result.city_details[1]),
      IF result.summarized_history = None THEN Printed("Error", "TypeError")
      ELSE Printed("summary", result.summarized_history[1])>>

\* what the try statement prints once get_details_async has returned result
PrintCity(result) ==
    IF result.city_details = None THEN <<Printed("Error", "AttributeError")>>
    ELSE IF result.city_details[1].city = None THEN <<Printed("friendly", "")>>
    ELSE IF result.summarized_history = None
         THEN <<Printed("details", result.city_details[1]), Printed("Error", "TypeError")>>
    ELSE <<Printed("details", result.city_details[1]),
           Printed("summary", result.summarized_history[1]), Printed("separator", "")>>

city_main_async_print ==
    /\ dr_program = "city"
    /\ dr_pc = "try"
    /\ ci_pc = "idle"
    /\ Tried(IF ci_outcome = "returned" THEN PrintCity(ci_result[1])
             ELSE <<Printed("Error", "Exception")>>)
    /\ UNCHANGED <<cityVars, besideCity>>

\* ---- console.py: the turn is the body of the try statement itself
\* the store tools the assistant's model calls
ConsoleTools == {"get_projects"}

ConsoleVarsInit ==
    /\ co_history = <<>>
    /\ co_histIn = <<>>
    /\ co_prompt = <<>>
    /\ co_calls = <<>>
    /\ co_final = <<>>
    /\ co_stream = <<>>
    /\ co_lastAll = <<>>
    /\ co_nCalls = 0
    /\ co_nChunks = 0
    /\ co_turns = 0

\* the loop body up to the opening of agent.run_stream
console_main_async ==
    /\ dr_program = "console"
    /\ dr_pc = "prompt"
    /\ UNCHANGED besideConsole
    /\ \E prompt \in Lines :
        IF prompt = "" THEN
            /\ Read(prompt, "prompt", <<>>, dr_outcome)
            /\ UNCHANGED consoleVars
        ELSE IF Matches(prompt, "exit") THEN
            /\ Read(prompt, "exited", <<>>, dr_outcome)
            /\ UNCHANGED consoleVars
        ELSE IF Matches(prompt, "clear") THEN
            /\ Read(prompt, "prompt", <<ClearScreen>>, dr_outcome)
            /\ UNCHANGED consoleVars
        ELSE
            /\ co_turns < MaxQueries
            /\ Read(prompt, "try", <<>>, "running")
            /\ co_turns' = co_turns + 1
            /\ co_prompt' = TextOf(prompt)
            /\ co_histIn' = get_all_messages(co_history)
            /\ co_calls' = <<>>
            /\ co_final' = <<>>
            /\ co_stream' = <<>>
            /\ UNCHANGED <<co_history, co_lastAll, co_nCalls, co_nChunks>>

\* the assistant's model calls a store tool and is asked again with its answer
console_tool_call ==
    /\ dr_program = "console"
    /\ dr_pc = "try"
    /\ co_final = <<>>
    /\ co_nCalls < MaxToolCalls
    /\ co_nCalls' = co_nCalls + 1
    /\ \E tool \in ConsoleTools :
        co_calls' = Append(co_calls, [tool |-> tool, data |-> <<"[]">>])
    /\ UNCHANGED <<co_history, co_histIn, co_prompt, co_final, co_stream, co_lastAll,
                   co_nChunks, co_turns>>
    /\ UNCHANGED <<besideConsole, driverVars>>

\* one round of the async for loop: a fragment arrives and is printed
console_chunk ==
    /\ dr_program = "console"
    /\ dr_pc = "try"
    /\ co_nChunks < MaxChunks
    /\ co_nChunks' = co_nChunks + 1
    /\ \E chunk \in Fragments :
        /\ co_stream' = Append(co_stream, chunk)
        /\ co_final' = co_final \o chunk
        /\ dr_out' = Append(dr_out, Printed("chunk", chunk))
    /\ UNCHANGED <<co_history, co_histIn, co_prompt, co_calls, co_lastAll, co_nCalls, co_turns>>
    /\ UNCHANGED <<besideConsole, dr_program, dr_pc, dr_line, dr_outcome, dr_errors>>

\* the stream ends: message_history.assign(result.all_messages()), then
\* message_history.append(TextPart(response_content))
console_stream_end ==
    /\ dr_program = "console"
    /\ dr_pc = "try"
    /\ \E withSystem \in BOOLEAN :
        LET all == StreamTranscript(co_histIn, co_prompt, withSystem, co_calls, co_turns)
        IN /\ co_lastAll' = all
           /\ co_history' = append(assign(co_history, all),
                                   Part("text", co_final, co_turns)).messages
    /\ Tried(<<>>)
    /\ UNCHANGED <<co_histIn, co_prompt, co_calls, co_final, co_stream, co_nCalls, co_nChunks,
                   co_turns>>
    /\ UNCHANGED besideConsole

\* the agent call or the stream raises: the except clause prints the error
console_raises ==
    /\ dr_program = "console"
    /\ dr_pc = "try"
    /\ Tried(<<Printed("Error", "Exception")>>)
    /\ UNCHANGED <<consoleVars, besideConsole>>

DriversNext ==
    \/ graph_main_async
    \/ Supervisor_run
    \/ BillingAccountSpecialist_run
    \/ TechnicalSupportSpecialist_run
    \/ ProductServiceSpecialist_run
    \/ AgentRaises
    \/ ask_async_return
    \/ graph_main_async_print
    \/ tool_main_async
    \/ technical_support_specialist
    \/ billing_account_specialist
    \/ product_service_specialist
    \/ StreamChunk
    \/ StreamEnd
    \/ StreamRaises
    \/ tool_main_async_print
    \/ city_main_async
    \/ CityDetails_run
    \/ CityHistory_run
    \/ SummarizeResult_run
    \/ CityRaises
    \/ get_details_return
    \/ city_main_async_print
    \/ console_main_async
    \/ console_tool_call
    \/ console_chunk
    \/ console_stream_end
    \/ console_raises

(***************************************************************************)
(* The web front end of the assistant (streamlit_ui.py): the script runs   *)
(* from its top on every interaction with the page.                        *)
(***************************************************************************)
\* what the user types into st.chat_input
WebPrompts == {<<"p", "1">>}

\* a chat message drawn on the page
ChatMessage(name, content) == [name |-> name, content |-> content]

Replayed_any(part) == TRUE

\* if part.part_kind in ["user-prompt", "text"]
Replayed(part) == part.part_kind \in {"user-prompt", "text"}

RECURSIVE ReplayParts(_)
\* the inner loop over message.parts
ReplayParts(parts) ==
    IF parts = <<>> THEN <<>>
    ELSE (IF Replayed(Head(parts))
          THEN <<ChatMessage(IF Head(parts).part_kind = "user-prompt" THEN "human" ELSE "ai",
                             Head(parts).content)>>
          ELSE <<>>) \o ReplayParts(Tail(parts))

RECURSIVE Replay(_)
\* the loop over message_history that draws the earlier turns
Replay(messages) ==
    IF messages = <<>> THEN <<>>
    ELSE ReplayParts(Head(messages).parts) \o Replay(Tail(messages))

WebVarsInit ==
    /\ ui_history = <<>>
    /\ ui_histIn = <<>>
    /\ ui_pc = "idle"
    /\ ui_page = <<>>
    /\ ui_shown = <<>>
    /\ ui_prompt = <<>>
    /\ ui_calls = <<>>
    /\ ui_final = <<>>
    /\ ui_stream = <<>>
    /\ ui_nCalls = 0
    /\ ui_nChunks = 0
    /\ ui_turns = 0

\* one run of the script up to the opening of agent.run_stream, or to its end
\* when st.chat_input gave nothing
web_main_async ==
    /\ UNCHANGED notWeb
    /\ ui_pc = "idle"
    /\ ui_histIn' = get_all_messages(ui_history)
    /\ \E prompt \in WebPrompts \cup {<<>>} :
        /\ ui_prompt' = prompt
        /\ IF prompt = <<>> THEN
                /\ ui_page' = Replay(get_all_messages(ui_history))
                /\ UNCHANGED <<ui_pc, ui_turns>>
           ELSE /\ ui_turns < MaxTurns
                /\ ui_turns' = ui_turns + 1
                /\ ui_page' = Replay(get_all_messages(ui_history))
                                \o <<ChatMessage("user", prompt), ChatMessage("assistant", <<>>)>>
                /\ ui_pc' = "streaming"
    /\ ui_shown' = <<>>
    /\ ui_calls' = <<>>
    /\ ui_final' = <<>>
    /\ ui_stream' = <<>>
    /\ UNCHANGED <<ui_history, ui_nCalls, ui_nChunks>>

\* the assistant's model calls a store tool and is asked again with its answer
web_tool_call ==
    /\ UNCHANGED notWeb
    /\ ui_pc = "streaming"
    /\ ui_final = <<>>
    /\ ui_nCalls < MaxToolCalls
    /\ ui_nCalls' = ui_nCalls + 1
    /\ \E tool \in ConsoleTools :
        ui_calls' = Append(ui_calls, [tool |-> tool, data |-> <<"[]">>])
    /\ UNCHANGED <<ui_history, ui_histIn, ui_pc, ui_page, ui_shown, ui_prompt, ui_final,
                   ui_stream, ui_nChunks, ui_turns>>

\* one round of the async for loop: a fragment arrives and the placeholder is redrawn
web_chunk ==
    /\ UNCHANGED notWeb
    /\ ui_pc = "streaming"
    /\ ui_nChunks < MaxChunks
    /\ ui_nChunks' = ui_nChunks + 1
    /\ \E chunk \in Fragments :
        /\ ui_stream' = Append(ui_stream, chunk)
        /\ ui_final' = ui_final \o chunk
        /\ ui_shown' = ui_final \o chunk
    /\ UNCHANGED <<ui_history, ui_histIn, ui_pc, ui_page, ui_prompt, ui_calls, ui_nCalls,
                   ui_turns>>

\* the stream ends: messages.assign(result.all_messages()), then
\* messages.append(TextPart(response_content)); the script is at its end
web_stream_end ==
    /\ UNCHANGED notWeb
    /\ ui_pc = "streaming"
    /\ \E withSystem \in BOOLEAN :
        LET all == StreamTranscript(ui_histIn, ui_prompt, withSystem, ui_calls, ui_turns)
        IN ui_history' = append(assign(ui_history, all),
                                Part("text", ui_final, ui_turns)).messages
    /\ ui_pc' = "idle"
    /\ UNCHANGED <<ui_histIn, ui_page, ui_shown, ui_prompt, ui_calls, ui_final, ui_stream,
                   ui_nCalls, ui_nChunks, ui_turns>>

\* the agent call or the stream raises: nothing catches it, the run of the
\* script ends and the page shows the exception
web_raises ==
    /\ UNCHANGED notWeb
    /\ ui_pc = "streaming"
    /\ ui_pc' = "idle"
    /\ ui_page' = Append(ui_page, ChatMessage("exception", <<>>))
    /\ UNCHANGED <<ui_history, ui_histIn, ui_shown, ui_prompt, ui_calls, ui_final, ui_stream,
                   ui_nCalls, ui_nChunks, ui_turns>>

WebNext ==
    \/ web_main_async
    \/ web_tool_call
    \/ web_chunk
    \/ web_stream_end
    \/ web_raises

(***************************************************************************)
(* The specifications: one program each; the variables of the other        *)
(* programs stay as they start.                                            *)
(***************************************************************************)
ProgramVarsInit ==
    /\ GraphVarsInit
    /\ ToolVarsInit
    /\ CityVarsInit
    /\ StoreVarsInit
    /\ HistoryVarsInit
    /\ ConsoleVarsInit
    /\ WebVarsInit

AllVarsInit == ProgramVarsInit /\ DriverVarsInit("none")

GraphInit == AllVarsInit

SpecGraph == GraphInit /\ [][GraphNext]_vars

\* the steps graph.run takes by itself once ask_async has started it: the
\* event loop resumes the coroutine whenever the awaited agent call is over
GraphTurnStep ==
    \/ Supervisor_run
    \/ BillingAccountSpecialist_run
    \/ TechnicalSupportSpecialist_run
    \/ ProductServiceSpecialist_run
    \/ AgentRaises
    \/ ask_async_return

SpecGraphLive == SpecGraph /\ WF_vars(GraphTurnStep)

ToolInit == AllVarsInit

SpecTool == ToolInit /\ [][ToolNext]_vars

CityInit == AllVarsInit

SpecCity == CityInit /\ [][CityNext]_vars

StoreInit == AllVarsInit

SpecStore == StoreInit /\ [][StoreNext]_vars

HistoryInit == AllVarsInit

SpecHistory == HistoryInit /\ [][HistoryNext]_vars

\* one of the four programs is started from its terminal
DriversInit == ProgramVarsInit /\ \E program \in Programs : DriverVarsInit(program)

SpecDrivers == DriversInit /\ [][DriversNext]_vars

WebInit == AllVarsInit

SpecWeb == WebInit /\ [][WebNext]_vars

(***************************************************************************)
(* Claims about the graph-variant call centre.                             *)
(***************************************************************************)
IsPrefix(a, b) == Len(a) <= Len(b) /\ SubSeq(b, 1, Len(a)) = a

TechnicalPath == <<"Supervisor", "TechnicalSupportSpecialist", "Supervisor", "End">>

\* C1: in a turn whose supervisor decision is Technical, the nodes executed are
\* Supervisor, TechnicalSupportSpecialist, Supervisor, End in that order (at
\* every moment of the turn a prefix of it, and all of it once ask_async has
\* returned), and the response ask_async returns has specialist = Technical.
C1_TechnicalPath ==
    (cc_decision # None /\ cc_decision[1].specialist = "Technical") =>
        /\ IsPrefix(cc_nodes, TechnicalPath)
        /\ cc_outcome = "returned" =>
            /\ cc_nodes = TechnicalPath
            /\ cc_result # None
            /\ cc_result[1].specialist = "Technical"

C1_Witness ==
    /\ cc_outcome = "returned"
    /\ cc_decision # None /\ cc_decision[1].specialist = "Technical"
    /\ cc_nodes = TechnicalPath
    /\ cc_result[1].specialist = "Technical"

\* C2: right after the supervisor's model call the next node is
\* BillingAccountSpecialist for Billing and Account, ProductServiceSpecialist
\* for Products and Services, TechnicalSupportSpecialist for Technical; for
\* General the run is at End with no specialist executed, and the response
\* (stored, and later returned) carries the supervisor's general_response.
C2_RoutingTable ==
    cc_decision # None =>
        LET d == cc_decision[1].specialist
            firstRun == cc_nodes = <<"Supervisor">> /\ cc_outcome = "running"
        IN /\ (d \in {"Billing", "Account"} /\ firstRun) => cc_pc = "BillingAccountSpecialist"
           /\ (d \in {"Products", "Services"} /\ firstRun) => cc_pc = "ProductServiceSpecialist"
           /\ (d = "Technical" /\ firstRun) => cc_pc = "TechnicalSupportSpecialist"
           /\ d = "General" =>
                /\ cc_nodes = <<"Supervisor", "End">>
                /\ cc_pc \in {"End", "idle"}
                /\ cc_pc = "End" =>
                    cc_state[cc_cur].response =
                        Some(CallCentreResponse("General", cc_decision[1].general_response))
                /\ cc_outcome = "returned" =>
                    cc_result = Some(CallCentreResponse("General", cc_decision[1].general_response))

C2_Witness ==
    /\ cc_outcome = "returned"
    /\ cc_decision = Some(SupervisorResponse("General", "g1"))
    /\ cc_result = Some(CallCentreResponse("General", "g1"))
    /\ cc_turns = 2

\* C3: after reset_state() the session's shared history holds no messages and
\* its accumulated usage is zero.
C3_ResetClears ==
    \A s \in Sessions :
        cc_justReset = s => (StateHistory(s) = <<>> /\ StateUsage(s) = 0)

\* C5: a turn run on one session never changes the history or the usage
\* counter seen by another session.
C5_SessionsIsolated ==
    [][\A s \in Sessions :
        (cc_pc # "idle" /\ cc_cur # s) =>
            (StateHistory(s)' = StateHistory(s) /\ StateUsage(s)' = StateUsage(s))]_vars

\* C6: whenever a specialist node is about to invoke its agent, and whenever
\* End is reached, the shared history holds no part of kind system-prompt.
C6_NoSystemPrompt ==
    (cc_pc \in SpecialistNodes \cup {"End"}) => ~HasKind(gs_history, "system-prompt")

C6_Witness ==
    /\ cc_pc = "End"
    /\ Len(cc_nodes) = 4
    /\ HasKind(cc_lastAll, "system-prompt")
    /\ HasKind(cc_supIn, "user-prompt")
    /\ ~HasKind(gs_history, "system-prompt")

(***************************************************************************)
(* Claims about the tool-variant call centre.                              *)
(***************************************************************************)
\* C4: after reset() the session's history is empty and its usage counter is
\* zero.
C4_ResetRebuilds ==
    \A s \in ToolSessions :
        tc_justReset = s => (StatesHistory(s) = <<>> /\ StatesUsage(s) = 0)

(***************************************************************************)
(* Claims about City Insights.                                             *)
(***************************************************************************)
\* C7: in a run whose Stage 1 record has no city, neither CityHistory nor
\* SummarizeResult is executed, and the result get_details_async returns has
\* summarized_history absent.
C7_ShortCircuit ==
    (Len(ci_stages) >= 1 /\ ci_stages[1] = "CityDetails" /\ ci_pc # "idle"
        /\ ci_state.city_details # None /\ ci_state.city_details[1].city = None)
    \/ (ci_outcome = "returned" /\ ci_result[1].city_details[1].city = None)
    => /\ ci_stages = <<"CityDetails">>
       /\ Len(ci_asked) = 1
       /\ ci_outcome = "returned" => ci_result[1].summarized_history = None

C7_Witness ==
    /\ ci_outcome = "returned"
    /\ ci_runs = 2
    /\ ci_result[1].city_details[1].city = None
    /\ ci_result[1].city_details[1].country # None
    /\ ci_result[1].summarized_history = None
    /\ ci_stages = <<"CityDetails">>

(***************************************************************************)
(* Claims about the mock project-tracking store.                           *)
(***************************************************************************)
\* the tasks the store lists under a project id
TasksUnder(T, project_id) == SelectSeq(T, LAMBDA r : TaskProjectIdIs(r, project_id))

\* C8: when delete_project_by_id(P.id) returns for a stored project P, P is
\* absent to get_project_by_id, every task that was under P is absent to
\* get_task_by_id, and every other project and every task of another project
\* is stored as before.
C8_CascadeDelete ==
    db_op.name = "delete_project_by_id" =>
        LET id == db_op.args[1]
            P0 == db_pre[1]
            T0 == db_pre[2]
        IN \A i \in 1..Len(P0) :
            P0[i].Id = id =>
                /\ db_ret = Ret("bool", TRUE)
                /\ get_project_by_id(Project, Task, id).ret.kind = "none"
                /\ \A j \in 1..Len(T0) :
                    T0[j].ProjectId = id =>
                        get_task_by_id(Project, Task, T0[j].Id).ret.kind = "none"
                /\ Project = SelectSeq(P0, LAMBDA r : r.Id # id)
                /\ Task = SelectSeq(T0, LAMBDA r : r.ProjectId # id)

C8_Witness ==
    /\ db_op.name = "delete_project_by_id"
    /\ db_ret = Ret("bool", TRUE)
    /\ \E i \in 1..Len(db_pre[1]) : db_pre[1][i].Id = db_op.args[1]
    /\ Len(TasksUnder(db_pre[2], db_op.args[1])) = 2
    /\ Task = <<>>

\* C9: no two stored projects have names that are equal ignoring letter case.
C9_UniqueNames ==
    \A i, j \in 1..Len(Project) :
        i # j => ~EqNoCase(Project[i].Name, Project[j].Name)

\* C10: every stored task's project_id is the id of a project that is stored.
C10_ReferentialIntegrity ==
    \A j \in 1..Len(Task) :
        \E i \in 1..Len(Project) : EqNoCase(Project[i].Id, Task[j].ProjectId)

\* C11: the status of every stored task is one of "Not Started", "In Progress",
\* "Completed".
C11_StatusValid ==
    \A j \in 1..Len(Task) : Task[j].Status \in Statuses

(***************************************************************************)
(* Claims about the tool adapter of the store.                             *)
(***************************************************************************)
\* the tools registered for the operations in a set
ToolsFor(operations) == {i \in 1..Len(get_tools) : get_tools[i].function \in operations}

RegistryWellFormed ==
    /\ Cardinality(ToolNames) = Len(get_tools)
    /\ \A i \in 1..Len(get_tools) :
        /\ get_tools[i].name = get_tools[i].function
        /\ get_tools[i].function \in StoreOperations
        /\ get_tools[i].description # ""

\* C12: the adapter registers exactly one tool per store operation, 18 in all
\* (8 project tools and 10 task tools), with pairwise distinct names, each the
\* name of the store method it wraps, and each description non-empty.
C12_EighteenTools ==
    /\ RegistryWellFormed
    /\ Len(get_tools) = 18
    /\ ToolNames = StoreOperations
    /\ Cardinality(ToolsFor(ProjectOperations)) = 8
    /\ Cardinality(ToolsFor(StoreOperations \ ProjectOperations)) = 10

\* C12 as amended: the adapter registers exactly one tool per project and task
\* operation of the store, 17 in all (8 project tools and 9 task tools), and
\* none for purge_all_data; the names are pairwise distinct, each the name of
\* the store method it wraps, and each description is non-empty.
C12_SeventeenTools ==
    /\ RegistryWellFormed
    /\ Len(get_tools) = 17
    /\ ToolNames = StoreOperations \ {"purge_all_data"}
    /\ Cardinality(ToolsFor(ProjectOperations)) = 8
    /\ Cardinality(ToolsFor(TaskOperations)) = 9

C12_Witness ==
    /\ Len(get_tools) = 17
    /\ db_op.name = get_tools[17].name
    /\ db_ret = Ret("bool", TRUE)

\* the update a text decodes to, when it decodes to one
DecodedUpdate(text) ==
    LET data_model == json_loads(text)
    IN IF data_model.kind = "dict" THEN AsanaTaskUpdate(data_model.val) ELSE data_model

\* the store method of the name of the tool just invoked, called on Asana_Api
\* itself from the tables the tool found, with the tool's arguments
DirectCall ==
    LET P == db_pre[1]
        T == db_pre[2]
        a == db_op.args
        name == db_op.name
    IN CASE name = "create_project" -> create_project(P, T, ProjectUuid(db_nProjects), a[1])
         [] name = "get_project_id" -> get_project_id(P, T, a[1])
         [] name = "get_project_by_id" -> get_project_by_id(P, T, a[1])
         [] name = "get_project_by_name" -> get_project_by_name(P, T, a[1])
         [] name = "get_projects" -> get_projects(P, T)
         [] name = "update_project" -> update_project(P, T, a[1], a[2])
         [] name = "delete_project_by_id" -> delete_project_by_id(P, T, a[1])
         [] name = "delete_project" -> delete_project(P, T, a[1])
         [] name = "create_task" -> create_task(P, T, TaskUuid(db_nTasks), a[1], a[2], a[3], a[4])
         [] name = "get_task_by_id" -> get_task_by_id(P, T, a[1])
         [] name = "get_task_by_name" -> get_task_by_name(P, T, a[1], a[2])
         [] name = "get_tasks_by_project_id" -> get_tasks_by_project_id(P, T, a[1])
         [] name = "get_tasks_by_project_name" -> get_tasks_by_project_name(P, T, a[1])
         [] name = "update_task_status" -> update_task_status(P, T, a[1], a[2])
         [] name = "update_task" ->
                LET model == DecodedUpdate(a[2]).val
                IN update_task(P, T, a[1], model.name, model.due_date, model.status)
         [] name = "delete_task_by_id" -> delete_task_by_id(P, T, a[1])
         [] name = "delete_task_by_name" -> delete_task_by_name(P, T, a[1], a[2])

\* C13: when a registered tool has been invoked with valid arguments, its return
\* value and the tables it leaves are those of the store method of the same
\* name called from the same tables (update_task with the decoded name,
\* due_date and status).
C13_PassThrough ==
    (/\ db_op.name \in ToolNames
     /\ db_op.name = "update_task" => DecodedUpdate(db_op.args[2]).kind = "model")
    => Effect(Project, Task, db_ret) = DirectCall

C13_Witness ==
    /\ db_op.name = "update_task"
    /\ DecodedUpdate(db_op.args[2]).kind = "model"
    /\ db_ret.kind = "task"
    /\ db_ret.val.name = Str(201, 1)
    /\ Task # db_pre[2]

(***************************************************************************)
(* Claims about the task operations of the store.                          *)
(***************************************************************************)
\* the update asked for by the update_task call that has just returned
AskedUpdate == DecodedUpdate(db_op.args[2]).val

\* C14: update_task(id, {name, due_date, status}) on an existing task stores the
\* given name, due_date and status (get_task_by_id(id) then returns exactly
\* those three), and the entity it returns has the update's name and due_date
\* and, as its status, the update's due_date.
C14_UpdateTask ==
    (/\ db_op.name = "update_task"
     /\ DecodedUpdate(db_op.args[2]).kind = "model"
     /\ AskedUpdate.name # PyNone
     /\ get_task_by_id(db_pre[1], db_pre[2], db_op.args[1]).ret.kind = "task")
    => LET before == get_task_by_id(db_pre[1], db_pre[2], db_op.args[1]).ret.val
           later == get_task_by_id(Project, Task, db_op.args[1]).ret
       IN /\ later.kind = "task"
          /\ later.val = [before EXCEPT !.name = AskedUpdate.name,
                                        !.due_date = AskedUpdate.due_date,
                                        !.status = AskedUpdate.status]
          /\ db_ret.kind = "task"
          /\ db_ret.val = [before EXCEPT !.name = AskedUpdate.name,
                                         !.due_date = AskedUpdate.due_date,
                                         !.status = AskedUpdate.due_date]

C14_Witness ==
    /\ db_op.name = "update_task"
    /\ db_ret.kind = "task"
    /\ db_ret.val.status = OtherDate
    /\ get_task_by_id(Project, Task, db_op.args[1]).ret.val.status = OtherStatus
    /\ get_task_by_id(db_pre[1], db_pre[2], db_op.args[1]).ret.val.due_date = CurrentDate
    /\ db_op.args[1] = Upper(TaskUuid(1))

\* the stored projects whose name equals a name ignoring letter case
NamedIgnoringCase(P, name) == SelectSeq(P, LAMBDA r : r.Name.b = name.b)

\* C15: when exactly one stored project p has a name equal to n' ignoring
\* letter case, get_project_id(n') returns p's id, get_project_by_name(n')
\* returns p, and get_tasks_by_project_name(n') returns p's tasks.
C15_NameLookup ==
    (/\ db_op.name \in {"get_project_id", "get_project_by_name", "get_tasks_by_project_name"}
     /\ Len(NamedIgnoringCase(db_pre[1], db_op.args[1])) = 1)
    => LET p == NamedIgnoringCase(db_pre[1], db_op.args[1])[1]
       IN /\ db_op.name = "get_project_id" => db_ret = Ret("id", p.Id)
          /\ db_op.name = "get_project_by_name" =>
                db_ret = Ret("project", AsanaProject(p.Id, p.Name, ProjectLink(p.Id)))
          /\ db_op.name = "get_tasks_by_project_name" =>
                db_ret = Ret("tasks", map_tasks(TasksUnder(db_pre[2], p.Id)))

C15_Witness ==
    /\ db_op.name = "get_tasks_by_project_name"
    /\ db_op.args[1] = Upper(Str(101, 0))
    /\ Len(db_pre[1]) = 2
    /\ Len(NamedIgnoringCase(db_pre[1], db_op.args[1])) = 1
    /\ NamedIgnoringCase(db_pre[1], db_op.args[1])[1].Name = Str(101, 0)
    /\ db_ret.kind = "tasks"
    /\ Len(db_ret.val) = 1

\* the stored row of the task of an id
RowOf(T, task_id) == SelectSeq(T, LAMBDA r : r.Id = task_id)

\* C16: create_task with due_date omitted, empty or the literal "today" stores
\* and returns the current date; with any other due_date string it stores and
\* returns that string unchanged.
C16_DueDateDefault ==
    (db_op.name = "create_task" /\ db_ret.kind = "task")
    => LET due_date == db_op.args[3]
           expected == IF due_date \in {Omitted, EmptyStr, TodayToken} THEN CurrentDate
                       ELSE due_date
       IN /\ db_ret.val.due_date = expected
          /\ Len(RowOf(Task, db_ret.val.id)) = 1
          /\ RowOf(Task, db_ret.val.id)[1].DueDate = expected

C16_Witness ==
    /\ db_op.name = "create_task"
    /\ db_op.args[3] = TodayToken
    /\ db_ret.kind = "task"
    /\ db_ret.val.due_date = CurrentDate
    /\ \E j \in 1..Len(db_pre[2]) : db_pre[2][j].DueDate = OtherDate

\* C17: create_task called without a status stores and returns a task whose
\* status is "Not Started", get_task_by_id returns the stored status, and the
\* stored status of a task stays as it is in every step other than an
\* update_task_status or update_task.
C17_StatusDefault ==
    [][/\ (db_op'.name = "create_task" /\ db_op'.args[4] = Omitted /\ db_ret'.kind = "task") =>
            /\ db_ret'.val.status = NotStarted
            /\ get_task_by_id(Project', Task', db_ret'.val.id).ret.val.status = NotStarted
       /\ (db_op'.name = "get_task_by_id" /\ db_ret'.kind = "task") =>
            db_ret'.val.status = RowOf(Task', db_ret'.val.id)[1].Status
       /\ \A i \in 1..Len(Task) : \A j \in 1..Len(Task') :
            (Task[i].Id = Task'[j].Id /\ Task[i].Status # Task'[j].Status) =>
                db_op'.name \in {"update_task_status", "update_task"}]_vars

C17_Witness ==
    /\ db_op.name = "create_task"
    /\ db_op.args[4] = Omitted
    /\ db_ret.kind = "task"
    /\ db_ret.val.status = NotStarted
    /\ \E j \in 1..Len(db_pre[2]) : db_pre[2][j].Status = OtherStatus

\* whether a table holds a row of an id, ignoring letter case
HasId(rows, id) == \E i \in 1..Len(rows) : rows[i].Id.b = id.b

\* C18: delete_project_by_id(id) and delete_task_by_id(id) return True only when
\* an entity of that id was stored and has been deleted, and False when none
\* was stored or id is empty.
C18_DeleteReturn ==
    /\ db_op.name = "delete_project_by_id" =>
        /\ db_ret = Ret("bool", TRUE) =>
            (HasId(db_pre[1], db_op.args[1]) /\ ~HasId(Project, db_op.args[1]))
        /\ (~HasId(db_pre[1], db_op.args[1]) \/ Falsy(db_op.args[1])) =>
            db_ret = Ret("bool", FALSE)
    /\ db_op.name = "delete_task_by_id" =>
        /\ db_ret = Ret("bool", TRUE) =>
            (HasId(db_pre[2], db_op.args[1]) /\ ~HasId(Task, db_op.args[1]))
        /\ (~HasId(db_pre[2], db_op.args[1]) \/ Falsy(db_op.args[1])) =>
            db_ret = Ret("bool", FALSE)

\* C19: update_task_status(id, status) returns False when id or status is
\* missing and when no task has that id, returns True only when a stored
\* task's status was set to the given status, and leaves the store as it was
\* when it returns False.
C19_UpdateStatusReturn ==
    db_op.name = "update_task_status" =>
        LET task_id == db_op.args[1]
            status == db_op.args[2]
        IN /\ (Falsy(task_id) \/ Falsy(status) \/ ~HasId(db_pre[2], task_id)) =>
                db_ret = Ret("bool", FALSE)
           /\ db_ret = Ret("bool", TRUE) =>
                \E j \in 1..Len(Task) : Task[j].Id.b = task_id.b /\ Task[j].Status = status
           /\ db_ret = Ret("bool", FALSE) => <<Project, Task>> = db_pre

\* the lookups that return one value, and those that return a list
SingleLookups ==
    {"get_project_id", "get_project_by_id", "get_project_by_name", "get_task_by_id",
     "get_task_by_name"}
ListLookups == {"get_projects", "get_tasks_by_project_id", "get_tasks_by_project_name"}

\* whether the arguments of the lookup that has just returned match a stored
\* row, ids and names compared ignoring letter case
LookupMatches ==
    LET P == db_pre[1]
        T == db_pre[2]
        a == db_op.args
        name == db_op.name
        named(n) == {i \in 1..Len(P) : P[i].Name.b = n.b}
    IN CASE name = "get_project_id" -> named(a[1]) # {}
         [] name = "get_project_by_name" -> named(a[1]) # {}
         [] name = "get_project_by_id" -> HasId(P, a[1])
         [] name = "get_task_by_id" -> HasId(T, a[1])
         [] name = "get_task_by_name" ->
                \E i \in named(a[1]) : \E j \in 1..Len(T) :
                    T[j].ProjectId.b = P[i].Id.b /\ T[j].Name.b = a[2].b
         [] name = "get_projects" -> P # <<>>
         [] name = "get_tasks_by_project_id" ->
                \E j \in 1..Len(T) : T[j].ProjectId.b = a[1].b
         [] name = "get_tasks_by_project_name" ->
                \E i \in named(a[1]) : \E j \in 1..Len(T) : T[j].ProjectId.b = P[i].Id.b

\* C20: a lookup changes nothing, and a lookup whose id or name matches nothing
\* returns an absent value (the list getters an empty list), never an error.
C20_LookupMiss ==
    db_op.name \in SingleLookups \cup ListLookups =>
        /\ <<Project, Task>> = db_pre
        /\ db_ret.kind # "raised"
        /\ ~LookupMatches =>
            /\ db_op.name \in SingleLookups => db_ret = Ret("none", None)
            /\ db_op.name \in ListLookups => db_ret.val = <<>>

C20_Witness ==
    /\ db_op.name = "get_task_by_name"
    /\ db_ret = Ret("none", None)
    /\ \E i \in 1..Len(Project) : Project[i].Name.b = db_op.args[1].b
    /\ Task # <<>>
    /\ ~LookupMatches

\* the keys of the members of a JSON text, and the value of its member of a key
KeysOf(text) == {text.members[i][1] : i \in 1..Len(text.members)}
ValueOf(text, key) ==
    text.members[CHOOSE i \in 1..Len(text.members) : text.members[i][1] = key][2]

\* the model argument is a JSON object of exactly name, due_date and status
WellFormedUpdate(text) ==
    /\ text.decodable
    /\ Len(text.members) = 3
    /\ KeysOf(text) = {"name", "due_date", "status"}

\* C28: the update_task tool hands the store's update_task the name, due_date
\* and status decoded from its JSON model argument; when the text is not
\* decodable JSON, or lacks or adds a field, the tool fails with an error of
\* the decoding, not of the store, and the store is unchanged.
C28_UpdateTaskDecode ==
    db_op.name = "update_task" =>
        LET text == db_op.args[2]
        IN IF WellFormedUpdate(text)
           THEN Effect(Project, Task, db_ret) =
                    update_task(db_pre[1], db_pre[2], db_op.args[1], ValueOf(text, "name"),
                                ValueOf(text, "due_date"), ValueOf(text, "status"))
           ELSE /\ db_ret.kind = "raised"
                /\ db_ret.val \in {"JSONDecodeError", "TypeError"}
                /\ <<Project, Task>> = db_pre

C28_Witness ==
    /\ db_op.name = "update_task"
    /\ db_op.args[2].decodable
    /\ "status" \notin KeysOf(db_op.args[2])
    /\ HasId(db_pre[2], db_op.args[1])
    /\ db_ret = RaisedWith("TypeError")

(***************************************************************************)
(* Claims about MessageHistory.                                            *)
(***************************************************************************)
\* the latest method call made on the MessageHistory object
LastCall == mh_ops[Len(mh_ops)]
LastCallIs(name) == mh_ops # <<>> /\ LastCall.name = name

\* C21: append(part) of a request-part kind adds one request message holding
\* only that part at the end of the log, of a response-part kind one response
\* message holding only that part; for a part of neither family it raises and
\* the log is as it was. The messages already in the log stay as they were.
C21_Append ==
    LastCallIs("append") =>
        LET part == LastCall.arg
        IN /\ part.part_kind \in RequestPartKinds =>
                /\ mh_ret = Self
                /\ mh_messages = mh_pre \o <<[kind |-> "request", parts |-> <<part>>]>>
           /\ part.part_kind \in ResponsePartKinds =>
                /\ mh_ret = Self
                /\ mh_messages = mh_pre \o <<[kind |-> "response", parts |-> <<part>>]>>
           /\ part.part_kind \notin RequestPartKinds \cup ResponsePartKinds =>
                /\ mh_ret.kind = "raised"
                /\ mh_messages = mh_pre

C21_Witness ==
    /\ LastCallIs("append")
    /\ LastCall.arg = NotAPart
    /\ mh_ret.kind = "raised"
    /\ Len(mh_messages) = 2
    /\ mh_messages[1].kind = "request"
    /\ mh_messages[2].kind = "response"

\* C22: remove_part_kind(k) on a history holding no part of kind k leaves it
\* as it was, and applying remove_part_kind(k) to its own result changes
\* nothing, whatever the history was.
C22_StripIdempotent ==
    LastCallIs("remove_part_kind") =>
        /\ ~HasKind(mh_pre, LastCall.arg) => mh_messages = mh_pre
        /\ remove_part_kind(mh_messages, LastCall.arg) = mh_messages
        /\ (/\ Len(mh_ops) >= 2
            /\ mh_ops[Len(mh_ops) - 1].name = "remove_part_kind"
            /\ mh_ops[Len(mh_ops) - 1].arg = LastCall.arg) => mh_messages = mh_pre

C22_Witness ==
    /\ Len(mh_ops) = 3
    /\ mh_ops[1].name = "assign"
    /\ HasKind(mh_ops[1].arg, "system-prompt")
    /\ mh_ops[2].name = "remove_part_kind"
    /\ mh_ops[2].arg = "system-prompt"
    /\ mh_ops[3].name = "remove_part_kind"
    /\ mh_ops[3].arg = "system-prompt"
    /\ mh_messages = mh_pre
    /\ mh_messages # mh_ops[1].arg

\* the parts appended to the object so far, in order
Appended ==
    LET calls == SelectSeq(mh_ops, LAMBDA c : c.name = "append")
    IN [i \in 1..Len(calls) |-> calls[i].arg]

\* the object has only had text and user-prompt parts appended (and been read)
OnlyTextAppended ==
    \A i \in 1..Len(mh_ops) :
        \/ mh_ops[i].name = "to_json"
        \/ mh_ops[i].name = "append" /\ mh_ops[i].arg.part_kind \in {"text", "user-prompt"}

\* C30: after text and user-prompt parts have been appended to an empty
\* MessageHistory, to_json lists one message per appended part, in the order
\* of the appends, each with that part's kind and content, and is the text
\* messages_to_json gives for get_all_messages().
C30_ToJson ==
    OnlyTextAppended =>
        \A indent \in Indents :
            LET json == to_json(mh_messages, indent)
            IN /\ Len(json.array) = Len(Appended)
               /\ \A i \in 1..Len(Appended) :
                    /\ Len(json.array[i].parts) = 1
                    /\ json.array[i].parts[1].part_kind = Appended[i].part_kind
                    /\ UnescapeJson(json.array[i].parts[1].content) = Appended[i].content
               /\ json = messages_to_json(get_all_messages(mh_messages), indent)
               /\ (LastCallIs("to_json") /\ LastCall.arg = indent) => mh_ret.val = json

C30_Witness ==
    /\ OnlyTextAppended
    /\ Len(Appended) = 2
    /\ Appended[1].part_kind = "text"
    /\ Appended[1].content = <<Quote, EAcute, Backslash>>
    /\ Appended[2].part_kind = "user-prompt"
    /\ LastCallIs("to_json")
    /\ mh_ret.val.array[1].parts[1].content # Appended[1].content

(***************************************************************************)
(* Claims about turns across the programs and their terminal loops.        *)
(***************************************************************************)
RECURSIVE Flatten(_)
\* the fragments of a stream joined in the order they arrived
Flatten(fragments) ==
    IF fragments = <<>> THEN <<>> ELSE Head(fragments) \o Flatten(Tail(fragments))

\* a response message holding one text part
TextResponse(content, turn) ==
    [kind |-> "response",
     parts |-> <<[part_kind |-> "text", content |-> content, turn |-> turn]>>]

\* C23: after a turn of the console assistant or of the tool-variant call
\* centre that completed without error, the session history is the transcript
\* the agent run gave for the turn followed by one response message whose only
\* part is a text part holding the turn's fragments joined in arrival order;
\* in the tool variant the callback got each fragment once, in that order, and
\* the response returned is the same text.
C23_StreamedTurn ==
    /\ (dr_program = "console" /\ dr_pc = "prompt" /\ dr_outcome = "returned") =>
        co_history = co_lastAll \o <<TextResponse(Flatten(co_stream), co_turns)>>
    /\ (dr_program = "tool" /\ tc_outcome = "returned" /\ tc_justReset = 0) =>
        /\ ts_history = tc_lastAll \o <<TextResponse(Flatten(tc_stream), tc_turns)>>
        /\ tc_sink = tc_stream
        /\ tc_result = Some(Flatten(tc_stream))

C23_Witness ==
    /\ dr_program = "tool"
    /\ dr_pc = "prompt"
    /\ tc_outcome = "returned"
    /\ Len(tc_stream) = 2
    /\ tc_stream[1] # tc_stream[2]
    /\ tc_calls # <<>>
    /\ Len(ts_history) = Len(tc_lastAll) + 1

\* C24: in each terminal loop an error caught in a turn leaves the loop at
\* its prompt, where a line can be read, and the loop ends only in the step
\* that reads the line exit.
C24_ErrorsDoNotEnd ==
    /\ [][/\ dr_errors' > dr_errors => (dr_pc' = "prompt" /\ dr_outcome' = "raised")
          /\ (dr_pc' = "exited" /\ dr_pc # "exited") =>
                (dr_pc = "prompt" /\ dr_line' = Some("exit"))]_vars
    /\ []((dr_pc = "prompt" /\ dr_program # "none") =>
            ENABLED (graph_main_async \/ tool_main_async \/ city_main_async
                     \/ console_main_async))

C24_Witness ==
    /\ dr_errors = 1
    /\ dr_outcome = "raised"
    /\ dr_pc = "prompt"
    /\ dr_line = Some("clear")

\* the lines a program's loop keeps to itself
Reserved(program) ==
    {"exit", "clear"} \cup (IF program \in {"graph", "tool"} THEN {"reset"} ELSE {})

\* turns the agents have been asked for, and the session histories
TurnsStarted == cc_turns + tc_turns + ci_runs + co_turns
SessionHistories == <<gs_history, ts_history, co_history>>

\* the query the program's agent has been given for the turn in progress
QueryGiven ==
    CASE dr_program = "graph" -> cc_state[1].prompt
      [] dr_program = "tool" -> IF tc_prompt = <<>> THEN None ELSE Some(tc_prompt[1])
      [] dr_program = "city" -> ci_state.prompt
      [] dr_program = "console" -> IF co_prompt = <<>> THEN None ELSE Some(co_prompt[1])

\* C25: a line equal to exit or clear (or reset in the two call-centre loops)
\* starts no turn and leaves the session history as it was (reset aside),
\* while every other non-empty line, Exit among them and reset in the console
\* and city loops, starts a turn whose query it is.
C25_ReservedTokens ==
    [][(dr_pc = "prompt" /\ dr_program # "none") =>
        LET line == dr_line'[1]
        IN /\ line \in Reserved(dr_program) =>
                /\ TurnsStarted' = TurnsStarted
                /\ dr_pc' # "try"
                /\ line # "reset" => SessionHistories' = SessionHistories
           /\ (line \notin Reserved(dr_program) /\ line # "") =>
                /\ TurnsStarted' = TurnsStarted + 1
                /\ dr_pc' = "try"
                /\ QueryGiven' = Some(line)]_vars

C25_Witness ==
    /\ dr_program = "console"
    /\ dr_pc = "try"
    /\ dr_line = Some("reset")
    /\ QueryGiven = Some("reset")
    /\ co_turns = 1

\* whether instance s has a turn in progress
InTurn(s) == cc_cur = s /\ cc_pc # "idle"

\* C26: in the graph-variant call centre the history handed to the supervisor
\* at the start of a session's turn is the session's history as its previous
\* turn left it, when the session was not reset in between: the supervisor is
\* handed the history the session reads at that moment, and that history does
\* not change between two turns of the session.
C26_HistoryCarried ==
    [][\A s \in Sessions :
        /\ (InTurn(s) /\ cc_nodes = <<>> /\ cc_nodes' = <<"Supervisor">> /\ cc_decision' # None) =>
                cc_supIn' = StateHistory(s)
        /\ (/\ ~InTurn(s)
            /\ ~InTurn(s)'
            /\ cc_state[s].prompt # None
            /\ cc_state'[s].prompt # None) => StateHistory(s)' = StateHistory(s)]_vars

\* C27: every model call of a call-centre session adds to the one counter the
\* session reads, and the counter never goes down.
C27_UsageAccumulates ==
    [][/\ gs_usage' >= gs_usage
       /\ ts_usage' >= ts_usage
       /\ ((cc_pc = "Supervisor" \/ cc_pc \in SpecialistNodes) /\ cc_lastAll' # cc_lastAll) =>
            gs_usage' = gs_usage + 1
       /\ tc_turns' > tc_turns => ts_usage' = ts_usage + 1
       /\ tc_nCalls' > tc_nCalls => ts_usage' = ts_usage + 2]_vars

C27_Witness ==
    /\ dr_program = "tool"
    /\ tc_nCalls = 1
    /\ ts_usage = 3
    /\ tc_pc = "streaming"

\* C29: the turn of the city loop ends in one of three ways: no city found,
\* and the friendly message alone is printed; an exception, and an error
\* message is printed; a city found, and the details record and then the
\* summary are printed. The loop is at its prompt again in all three.
C29_CityOutcomes ==
    (/\ dr_program = "city"
     /\ dr_pc # "try"
     /\ dr_line # None
     /\ dr_line[1] \notin Reserved("city") \cup {""}) =>
        /\ dr_pc = "prompt"
        /\ ci_outcome \in {"returned", "raised"}
        /\ ci_outcome = "raised" =>
            (Len(dr_out) = 1 /\ dr_out[1].kind = "Error")
        /\ (ci_outcome = "returned" /\ ci_result[1].city_details[1].city = None) =>
            dr_out = <<[kind |-> "friendly", val |-> ""]>>
        /\ (ci_outcome = "returned" /\ ci_result[1].city_details[1].city # None) =>
            /\ Len(dr_out) >= 2
            /\ dr_out[1] = [kind |-> "details", val |-> ci_result[1].city_details[1]]
            /\ dr_out[2] = [kind |-> "summary", val |-> ci_result[1].summarized_history[1]]
            /\ \A i \in 1..Len(dr_out) : dr_out[i].kind \notin {"Error", "friendly"}

C29_Witness ==
    /\ dr_program = "city"
    /\ dr_pc = "prompt"
    /\ ci_outcome = "returned"
    /\ ci_result[1].city_details[1].city = None
    /\ ci_result[1].city_details[1].country # None
    /\ dr_out = <<[kind |-> "friendly", val |-> ""]>>

(***************************************************************************)
(* Claims about the course of one turn and about failed turns.             *)
(***************************************************************************)
\* the node sequences of a turn that reached End
GeneralPath == <<"Supervisor", "End">>
SpecialistPaths ==
    {<<"Supervisor", node, "Supervisor", "End">> : node \in SpecialistNodes}

\* C31: a turn of the graph variant ends (its agent calls returning or
\* raising); when it returns it has executed Supervisor alone or Supervisor,
\* one specialist and Supervisor again, so at most three nodes; the
\* supervisor's agent is called in the first node execution only, a specialist
\* agent only as the second, and the second entry into Supervisor calls no
\* agent and goes to End.
C31_TurnTerminates ==
    /\ [](cc_outcome = "returned" =>
            /\ cc_nodes \in {GeneralPath} \cup SpecialistPaths
            /\ cc_decision # None)
    /\ [][/\ (cc_pc = "Supervisor" /\ cc_pc' # "idle" /\ cc_nodes = <<>>) =>
                (gs_usage' = gs_usage + 1 /\ cc_decision = None /\ cc_decision' # None)
          /\ (cc_pc = "Supervisor" /\ cc_nodes # <<>>) =>
                (/\ cc_nodes \in {<<"Supervisor", node>> : node \in SpecialistNodes}
                 /\ cc_pc' = "End"
                 /\ UNCHANGED <<gs_usage, gs_history, cc_lastAll, cc_decision, cc_state>>)
          /\ (cc_pc \in SpecialistNodes) => cc_nodes = <<"Supervisor">>]_vars
    /\ (cc_outcome = "running") ~> (cc_outcome \in {"returned", "raised"})

C31_Witness ==
    /\ cc_outcome = "returned"
    /\ cc_nodes = <<"Supervisor", "ProductServiceSpecialist", "Supervisor", "End">>
    /\ gs_usage = 2
    /\ cc_turns = 1

\* C32: when an agent call raises in a turn of the graph variant, in the
\* supervisor or in the specialist it routed to, the shared history after the
\* turn is the history the turn began with.
C32_FailedTurnHistory ==
    [][/\ (cc_outcome # "running" /\ cc_outcome' = "running") => gs_history' = gs_history
       /\ (cc_outcome = "running" /\ cc_outcome' = "raised") =>
            gs_history' = (IF cc_decision = None THEN gs_history ELSE cc_supIn)]_vars

\* C33: the response a turn of the graph variant returns was made in that
\* turn: its specialist is the decision the supervisor's agent gave in this
\* turn, and its text is that decision's general response or the text the
\* specialist's agent produced in this turn.
C33_ResponseOfThisTurn ==
    cc_outcome = "returned" =>
        /\ cc_decision # None
        /\ cc_result # None
        /\ cc_result[1].specialist = cc_decision[1].specialist
        /\ IF cc_decision[1].specialist = "General"
           THEN cc_result[1].response = cc_decision[1].general_response
           ELSE /\ Len(cc_nodes) = 4
                /\ cc_lastAll # <<>>
                /\ cc_lastAll[Len(cc_lastAll)] =
                        ModelResponse(<<Part("text", cc_result[1].response, cc_turns)>>)

C33_Witness ==
    /\ cc_outcome = "returned"
    /\ cc_turns = 2
    /\ cc_cur = 1
    /\ cc_decision[1].specialist = "Billing"
    /\ cc_result = Some(CallCentreResponse("Billing", "t1"))
    /\ \E i \in 1..Len(gs_history) :
            gs_history[i] = ModelResponse(<<Part("text", "t1", 1)>>)

(***************************************************************************)
(* Further claims about the mock project-tracking store.                   *)
(***************************************************************************)
\* what the operations that take a project id give on tables P and T
ByProjectId(name, P, T, project_id) ==
    CASE name = "get_project_by_id" -> AsanaTools_get_project_by_id(P, T, project_id)
      [] name = "get_tasks_by_project_id" -> AsanaTools_get_tasks_by_project_id(P, T, project_id)
      [] name = "delete_project_by_id" -> AsanaTools_delete_project_by_id(P, T, project_id)

\* C34: called with an id that equals a stored project's id up to letter
\* case, get_project_by_id, get_tasks_by_project_id and delete_project_by_id
\* return what they return for the id as stored and leave the tables as they
\* leave them for the id as stored (delete_project_by_id: without the project
\* and without its tasks).
C34_IdsIgnoreCase ==
    db_op.name \in {"get_project_by_id", "get_tasks_by_project_id", "delete_project_by_id"} =>
        \A i \in 1..Len(db_pre[1]) :
            EqNoCase(db_pre[1][i].Id, db_op.args[1]) =>
                LET exact == ByProjectId(db_op.name, db_pre[1], db_pre[2], db_pre[1][i].Id)
                IN /\ db_ret = exact.ret
                   /\ Project = exact.Project
                   /\ Task = exact.Task

(***************************************************************************)
(* Further claims about City Insights.                                     *)
(***************************************************************************)
StageOrder == <<"CityDetails", "CityHistory", "SummarizeResult">>

\* the Stage 1 record of the run in progress, or of the run that has returned
StageOneRecord ==
    IF ci_outcome = "returned" THEN ci_result[1].city_details ELSE ci_state.city_details

\* C35: in a run whose Stage 1 record has a city the stages executed are, at
\* every moment, the beginning of CityDetails, CityHistory, SummarizeResult,
\* and all three once the run is at its end; CityHistory's agent is asked
\* about the city of the Stage 1 record and SummarizeResult's agent about the
\* narrative Stage 2 stored; the summarized_history returned is what Stage 3
\* stored; and a run starts from a new state holding only its prompt.
C35_StageOrder ==
    /\ []((ci_outcome \in {"running", "returned"} /\ StageOneRecord # None
            /\ StageOneRecord[1].city # None) =>
            /\ IsPrefix(ci_stages, StageOrder)
            /\ (ci_pc = "End" \/ ci_outcome = "returned") => ci_stages = StageOrder
            /\ Len(ci_asked) = Len(ci_stages)
            /\ Len(ci_asked) >= 2 =>
                ci_asked[2] = [stage |-> "CityHistory", text |-> StageOneRecord[1].city]
            /\ (Len(ci_asked) >= 3 /\ ci_pc = "End") =>
                /\ ci_state.brief_history # None
                /\ ci_asked[3] = [stage |-> "SummarizeResult", text |-> ci_state.brief_history])
    /\ [][/\ (ci_pc = "SummarizeResult" /\ ci_pc' = "End") => ci_state'.summarized # None
          /\ (ci_pc = "End" /\ ci_outcome' = "returned") =>
                ci_result'[1].summarized_history = ci_state.summarized
          /\ (ci_outcome # "running" /\ ci_outcome' = "running") =>
                /\ ci_stages' = <<>>
                /\ ci_pc' = "CityDetails"
                /\ ci_state'.prompt # None
                /\ ci_state' = [CityInsightsState EXCEPT !.prompt = ci_state'.prompt]]_vars

C35_Witness ==
    /\ ci_outcome = "returned"
    /\ ci_runs = 2
    /\ ci_stages = StageOrder
    /\ ci_result[1].city_details[1].city = Some("c2")
    /\ ci_asked[2].text = Some("c2")
    /\ ci_asked[3].text = Some("h2")
    /\ ci_result[1].summarized_history = Some("s1")

PartsBeside(parts, part_kind) == SelectSeq(parts, LAMBDA part : part.part_kind # part_kind)

\* C37: after remove_part_kind(k) no message holds a part of kind k, the log
\* has the messages it had, in their order, one left without parts included,
\* and each message holds the parts of other kinds it held, in their order.
C37_StripFrame ==
    LastCallIs("remove_part_kind") =>
        /\ mh_ret = Self
        /\ ~HasKind(mh_messages, LastCall.arg)
        /\ Len(mh_messages) = Len(mh_pre)
        /\ \A i \in 1..Len(mh_pre) :
            /\ mh_messages[i].kind = mh_pre[i].kind
            /\ mh_messages[i].parts = PartsBeside(mh_pre[i].parts, LastCall.arg)

C37_Witness ==
    /\ LastCallIs("remove_part_kind")
    /\ Len(mh_messages) = 2
    /\ Len(mh_pre[1].parts) = 3
    /\ mh_pre[1].parts[1] = mh_pre[1].parts[3]
    /\ LastCall.arg = "system-prompt"
    /\ Len(mh_messages[1].parts) = 1
    /\ mh_messages[2] = mh_pre[2]

(***************************************************************************)
(* Claims about the store's connections and about missing targets.         *)
(***************************************************************************)
RECURSIVE OpenAfter(_)
\* the connections open after a sequence of connection events
OpenAfter(events) ==
    IF events = <<>> THEN 0
    ELSE OpenAfter(SubSeq(events, 1, Len(events) - 1))
            + (CASE events[Len(events)] = "connect" -> 1
                 [] events[Len(events)] = "close" -> -1
                 [] OTHER -> 0)

\* C38: an operation of the store has closed every connection it opened when
\* it returns or raises, and at no moment of the operation, its lookups made
\* first included, is more than one connection open.
C38_ConnectionsClosed ==
    /\ OpenAfter(db_conns) = 0
    /\ \A n \in 0..Len(db_conns) : OpenAfter(SubSeq(db_conns, 1, n)) \in {0, 1}
    /\ \A n \in 1..Len(db_conns) :
        db_conns[n] \in {"execute", "commit", "raise"} => OpenAfter(SubSeq(db_conns, 1, n)) = 1
    /\ (db_op # Idle /\ ~(db_ret.kind = "raised" /\ db_ret # Raised)
        /\ db_op.name \notin {"update_task_status", "delete_task_by_id"}) => db_conns # <<>>

C38_Witness ==
    /\ db_op.name = "update_project"
    /\ db_ret = Raised
    /\ db_conns = <<"connect", "execute", "close", "connect", "raise", "close">>

\* no row of the table has this id, no project has this name
NoProjectWithId(P, id) == \A i \in 1..Len(P) : ~ProjectIdIs(P[i], id)
NoTaskWithId(T, id) == \A j \in 1..Len(T) : ~TaskIdIs(T[j], id)
NoProjectNamed(P, name) == \A i \in 1..Len(P) : ~ProjectNameIs(P[i], name)

\* the call that has just returned had nothing to work on
MissingTarget ==
    \/ db_op.name = "update_project" /\ NoProjectWithId(db_pre[1], db_op.args[1])
    \/ /\ db_op.name = "update_task"
       /\ NoTaskWithId(db_pre[2], db_op.args[1])
       /\ WellFormedUpdate(db_op.args[2])
    \/ db_op.name = "delete_project" /\ NoProjectNamed(db_pre[1], db_op.args[1])
    \/ /\ db_op.name = "delete_task_by_name"
       /\ (NoProjectNamed(db_pre[1], db_op.args[1]) \/ db_op.args[2] = EmptyStr)

\* C39: update_project and update_task with an id no project or task has
\* return None, delete_project with a name no project has returns False,
\* delete_task_by_name returns False when no project has the name or the task
\* name is empty, and the two tables are then as they were before the call.
C39_MissingTarget ==
    MissingTarget =>
        /\ db_ret = (IF db_op.name \in {"update_project", "update_task"}
                     THEN Ret("none", None) ELSE Ret("bool", FALSE))
        /\ Project = db_pre[1]
        /\ Task = db_pre[2]

C39_Witness ==
    /\ db_op.name = "delete_task_by_name"
    /\ ~NoProjectNamed(db_pre[1], db_op.args[1])
    /\ db_op.args[2] = EmptyStr
    /\ db_ret = Ret("bool", FALSE)
    /\ Len(Task) = 2
    /\ Task = db_pre[2]

(***************************************************************************)
(* Claims about the web front end.                                         *)
(***************************************************************************)
RECURSIVE PartsOf(_)
\* every part of a list of messages, in the order of the list
PartsOf(messages) ==
    IF messages = <<>> THEN <<>> ELSE Head(messages).parts \o PartsOf(Tail(messages))

\* the parts of the history the latest run of the script read that are a
\* user's prompt or a response text
ChatParts ==
    SelectSeq(PartsOf(ui_histIn), LAMBDA part : part.part_kind \in {"user-prompt", "text"})

\* C40: while a turn is streamed the placeholder shows the fragments received
\* so far in the turn, joined in order, and each redraw shows a text that
\* begins with the one shown before; a run of the script first draws one chat
\* message per part of kind user-prompt or text of the history, in the
\* history's order and with the part's content, as human for a user-prompt
\* part and as ai for a text part, and draws no other part.
C40_Placeholder ==
    /\ [](/\ ui_shown = Flatten(ui_stream)
          /\ Len(ui_page) >= Len(ChatParts)
          /\ \A i \in 1..Len(ChatParts) :
                /\ ui_page[i].name = (IF ChatParts[i].part_kind = "user-prompt"
                                      THEN "human" ELSE "ai")
                /\ ui_page[i].content = ChatParts[i].content
          /\ \A i \in (Len(ChatParts) + 1)..Len(ui_page) :
                ui_page[i].name \in {"user", "assistant", "exception"}
          /\ ui_pc = "streaming" =>
                /\ ui_histIn = ui_history
                /\ Len(ui_page) = Len(ChatParts) + 2
                /\ ui_page[Len(ui_page) - 1] = [name |-> "user", content |-> ui_prompt]
                /\ ui_page[Len(ui_page)].name = "assistant")
    /\ [][(ui_pc = "streaming" /\ ui_pc' = "streaming") =>
            (IsPrefix(ui_shown, ui_shown') /\ ui_page' = ui_page)]_vars

C40_Witness ==
    /\ ui_pc = "streaming"
    /\ ui_turns = 2
    /\ Len(ui_stream) = 1
    /\ ui_shown = <<"b", "c">>
    /\ Len(PartsOf(ui_histIn)) > Len(ChatParts)
    /\ Len(ChatParts) = 2
    /\ ui_page[2] = [name |-> "ai", content |-> <<"a">>]

====
